---- MODULE Spec2Model ----
(***************************************************************************)
(* Verification model of github-topic-miner: the Spec Bridge               *)
(* (scripts/bridge/runBridge.ts, the two gates, patchOps) as a state       *)
(* machine, and applyCitationsPatch as a pure function under its own       *)
(* specification.                                                          *)
(*                                                                         *)
(* Evidence ids are modelled by their rank in collation order: id i sorts  *)
(* before id j under localeCompare iff i < j.                              *)
(***************************************************************************)
EXTENDS Integers, Sequences, FiniteSets, TLC

VARIABLES
  params,       \* runBridge's arguments: wireRaw, allowedEvidenceIds, maxRepairAttempts, qualityConfig
  pc,           \* position of runBridge
  canonical,    \* runBridge's local `canonical` (NoDoc before normalize)
  stages,       \* report.stages
  final,        \* report.final
  attempt,      \* the loop variable of the attempt loop
  result,       \* what runBridge returned: [ok, canonical] (canonical = NoDoc when absent)
  repairCalls,  \* number of calls of repairCitationsWithPatch made by this run
  repaired,     \* what the awaited repair call settled with in the last round (NoDoc outside)
  pdoc,         \* applyCitationsPatch harness: the argument object `canonical`
  ppatch,       \* applyCitationsPatch harness: the argument `patch`
  pout,         \* applyCitationsPatch harness: the returned object
  ppc,          \* applyCitationsPatch harness: position
  wire,         \* normalizeWireToCanonical harness: params.wire
  normalized,   \* normalizeWireToCanonical harness: the returned {canonical, normalize_report}
  renormalized, \* normalizeWireToCanonical harness: the result of normalizing normalized.canonical again
  v3raw,        \* schema-v3 runBridge: params.wireRaw
  v3pc,         \* schema-v3 runBridge: position
  v3wire,       \* schema-v3 runBridge: the local `wire` (NoDoc before wire_validate)
  v3normalized, \* schema-v3 runBridge: the local `normalized` (NoDoc before normalize)
  v3stages,     \* schema-v3 runBridge: report.stages
  v3final,      \* schema-v3 runBridge: report.final
  v3result,     \* schema-v3 runBridge: the returned {ok, canonical}
  gdoc,         \* gate harness: the argument `canonical`
  gallowed,     \* gate harness: the argument `allowedEvidenceIds`
  gconfig,      \* gate harness: the argument `config`
  gout,         \* gate harness: what the two gates returned, and the arguments as the calls left them
  sdoc,         \* CanonicalSpecSchema harness: the document given to parse
  sout,         \* CanonicalSpecSchema harness: whether parse accepted it
  nconfig,      \* llm_spec_generator: state.config and state.gaps as the node reads them
  ncards,       \* llm_spec_generator: state.repo_cards, by full_name
  npc,          \* llm_spec_generator: position
  nrepo,        \* llm_spec_generator: index of the card the for-of loop is at
  niter,        \* llm_spec_generator: the loop variable `iter`
  nlocal,       \* llm_spec_generator: the per-repository locals (usedIterations, finalBridge, ...)
  nbudget,      \* the BudgetState of the budget manager
  nout,         \* llm_spec_generator: spec_results, per_repo_gap_loop and status
  nhist,        \* llm_spec_generator: the calls made so far, as the properties observe them
  cin,          \* classifyFailure harness: the argument `params`
  cout,         \* classifyFailure harness: the returned {kind, message, hints}
  rcfg,         \* withRetry: the options and the operation
  rpc,          \* withRetry: position
  rattempt,     \* withRetry: the loop variable attempt
  rerrors,      \* withRetry: the errors the operation threw, in order
  rcalls,       \* withRetry: invocations of the operation
  revents,      \* withRetry: onRetry and onGiveup calls, in order
  rresult,      \* withRetry: the value returned or the error thrown
  mitems,       \* mapLimit: the number of items
  mlimit,       \* mapLimit: limit
  mnext,        \* mapLimit: nextIndex
  mworkers,     \* mapLimit: each worker, its position and currentIndex
  mresults,     \* mapLimit: results, an empty slot is <<>>
  minvoked,     \* mapLimit: how often asyncMapper was invoked for each index
  mreturn,      \* mapLimit: how the returned promise settled
  dindex,       \* specs/index.json: full_name -> entry, as the deduper persists it
  dhist,        \* the deduper runs so far: candidates, index as loaded, configuration, new_candidates
  tcfg,         \* the resolved topicSelection configuration of the runs
  tstate,       \* specs/topic_selection_state.json
  tlast,        \* the last selection: topics returned, state as loaded
  tpending,     \* the last selected run has not been finalized
  covdoc,       \* the canonical document ensureCitationCoverage is first called on
  covcfg,       \* the quality gate configuration of the run
  covruns,      \* the results of the successive calls of ensureCitationCoverage
  ecfg,         \* gap-loop configuration of the enrichment harness
  ecard,        \* repo card of the enrichment harness: evidence and root_files
  egap,         \* iter, evidence_total_initial and addedEvidenceTotal of the loop
  eiters,       \* per iteration: evidence, allow-list and ids offered to the model
  eentry,       \* the gap-loop record written for the repository
  epc,          \* position in the gap loop
  bcfg,         \* budget configuration of the budget-manager harness
  bstate,       \* BudgetState of the manager
  bnow,         \* Date.now(), in seconds since the manager was created
  bloop,        \* the caller: phase, index of the current card, number of cards
  btrace,       \* what the manager returned and logged so far
  xfile,        \* specs/index.json of the index harness
  xrun,         \* the run in progress: phase, config, candidates, state.index, new_candidates
  xhist         \* per finished deduper: names of the candidates and of the new candidates

bridgeVars == <<params, pc, canonical, stages, final, attempt, result, repairCalls, repaired>>
patchVars == <<pdoc, ppatch, pout, ppc>>
normVars == <<wire, normalized, renormalized>>
v3Vars == <<v3raw, v3pc, v3wire, v3normalized, v3stages, v3final, v3result>>
gateVars == <<gdoc, gallowed, gconfig, gout>>
schemaVars == <<sdoc, sout>>
nodeVars == <<nconfig, ncards, npc, nrepo, niter, nlocal, nbudget, nout, nhist>>
classVars == <<cin, cout>>
retryVars == <<rcfg, rpc, rattempt, rerrors, rcalls, revents, rresult>>
mapVars == <<mitems, mlimit, mnext, mworkers, mresults, minvoked, mreturn>>
dedupeVars == <<dindex, dhist>>
topicVars == <<tcfg, tstate, tlast, tpending>>
coverVars == <<covdoc, covcfg, covruns>>
enrichVars == <<ecfg, ecard, egap, eiters, eentry, epc>>
budgetVars == <<bcfg, bstate, bnow, bloop, btrace>>
indexVars == <<xfile, xrun, xhist>>
extraVars == <<nodeVars, classVars, retryVars, mapVars, dedupeVars, topicVars, coverVars, enrichVars, budgetVars, indexVars>>
coreVars == <<bridgeVars, patchVars, normVars, v3Vars, gateVars, schemaVars>>
harnessVars == <<patchVars, normVars, v3Vars, gateVars, schemaVars, extraVars>>
vars == <<params, pc, canonical, stages, final, attempt, result, repairCalls, repaired,
          pdoc, ppatch, pout, ppc, wire, normalized, renormalized,
          v3raw, v3pc, v3wire, v3normalized, v3stages, v3final, v3result, gdoc, gallowed, gconfig, gout, sdoc, sout,
          nconfig, ncards, npc, nrepo, niter, nlocal, nbudget, nout, nhist,
          cin, cout,
          rcfg, rpc, rattempt, rerrors, rcalls, revents, rresult,
          mitems, mlimit, mnext, mworkers, mresults, minvoked, mreturn,
          dindex, dhist,
          tcfg, tstate, tlast, tpending,
          covdoc, covcfg, covruns,
          ecfg, ecard, egap, eiters, eentry, epc,
          bcfg, bstate, bnow, bloop, btrace,
          xfile, xrun, xhist>>

----------------------------------------------------------------------------
(* Bounds of the model.                                                    *)

\* evidence ids are 1..MaxId
MaxId == 2
\* params.maxRepairAttempts ranges over -1..MaxRepairParam, or is absent
MaxRepairParam == 1
\* most items (screens, commands, tables, columns of a table, tests) of a wire
\* document given to the schema-v3 normalizer
MaxItems == 3
\* most milestones of a wire document's mvp_plan
MaxPlanLen == 2
\* longest citation list of a wire document fed to the bridge
MaxCite == 1
\* number of citation keys of a wire document that differ from a fully cited one
MaxGaps == 1
\* number of entries of a repair patch
MaxPatchKeys == 1
\* longest id list inside a repair patch
MaxPatchLen == 2
\* applyCitationsPatch on its own: number of entries of a patch, longest id list
MaxHarnessKeys == 2
MaxListLen == 2
\* the gates on their own: number of citation keys that differ from a fully
\* cited document, longest id list and allow-list
MaxGatePlaces == 2
MaxGateLen == 2

\* `params.maxRepairAttempts ?? 2`
DefaultMaxRepairAttempts == 2
\* Number((cited / total).toFixed(4)): ratios are counted in 1/RatioScale
RatioScale == 10000
\* quality.empty_fields.slice(0, 10)
EmptyFieldsShown == 10

Ids == 1..MaxId
NoDoc == [none |-> TRUE]
\* an optional argument that was not given; a given one is <<value>>
NoParam == <<>>

Sections == <<"screens", "commands", "tables", "acceptance_tests">>
SectionSet == {Sections[i] : i \in 1..Len(Sections)}

----------------------------------------------------------------------------
(* Sequences and id lists.                                                 *)

\* F(e), with e evaluated once and F applied to its value
Eval(e, F(_)) == CHOOSE r \in {F(v) : v \in {e}} : TRUE

Range(s) == {s[i] : i \in 1..Len(s)}

Max(a, b) == IF a >= b THEN a ELSE b
Min(a, b) == IF a <= b THEN a ELSE b

\* s.slice(0, n)
Slice(s, n) == SubSeq(s, 1, Min(n, Len(s)))

RECURSIVE SortedSeq(_)
SortedSeq(S) ==
  Eval(S, LAMBDA T :
    IF T = {} THEN <<>>
    ELSE Eval(CHOOSE x \in T : \A y \in T : x <= y,
              LAMBDA m : <<m>> \o SortedSeq(T \ {m})))

\* [...new Set(ids)].sort((a, b) => a.localeCompare(b))
stableUnique(ids) == SortedSeq(Range(ids))

\* all sequences over S of length at most n
SeqsUpTo(S, n) == UNION {[1..k -> S] : k \in 0..n}

\* the lists a normalizer emits: deduplicated and sorted
SortedLists(n) == {SortedSeq(T) : T \in {U \in SUBSET Ids : Cardinality(U) <= n}}

IsSortedUnique(s) == \A i \in 1..Len(s) : \A j \in 1..Len(s) : i < j => s[i] < s[j]

\* [...new Set(xs)]: the first occurrence of each element, in order
FirstOccurrences(xs) ==
  LET IsFirst(i) == \A j \in 1..(i - 1) : xs[j] # xs[i]
  IN Eval(SelectSeq([i \in 1..Len(xs) |-> i], IsFirst),
          LAMBDA at : [k \in 1..Len(at) |-> xs[at[k]]])
DedupeFirst(xs) == Eval(xs, FirstOccurrences)

RECURSIVE Flatten(_)
Flatten(ss) == Eval(ss, LAMBDA v : IF v = <<>> THEN <<>> ELSE v[1] \o Flatten(Tail(v)))

\* a JS object with string keys: a function on its own keys
EmptyMap == [k \in {} |-> <<>>]
Put(m, k, v) == [x \in (DOMAIN m) \cup {k} |-> IF x = k THEN v ELSE m[x]]
\* m[k] ?? []
Get(m, k) == IF k \in DOMAIN m THEN m[k] ELSE <<>>

----------------------------------------------------------------------------
(* The canonical document.                                                 *)

ScreenOf(id) == [id |-> id, name |-> "Main", purpose |-> "p", primary_actions |-> <<"a">>]
CommandOf(name) == [name |-> name, purpose |-> "p", async |-> TRUE,
                    input |-> [id |-> "string"], output |-> [ok |-> "boolean"]]
TableOf(name) == [name |-> name, fields |-> <<[name |-> "id", type |-> "TEXT"]>>]

\* the keys under which an entity's citations are stored
ScreenKeys(doc) == [i \in 1..Len(doc.screens) |-> doc.screens[i].id]
CommandKeys(doc) == [i \in 1..Len(doc.rust_commands) |-> doc.rust_commands[i].name]
TableKeys(doc) == [i \in 1..Len(doc.data_model.tables) |-> doc.data_model.tables[i].name]
\* String(i) for i = 0 .. acceptance_tests.length - 1
TestKeys(doc) == [i \in 1..Len(doc.acceptance_tests) |-> ToString(i - 1)]

EntityKeys(doc, sec) ==
  CASE sec = "screens" -> ScreenKeys(doc)
    [] sec = "commands" -> CommandKeys(doc)
    [] sec = "tables" -> TableKeys(doc)
    [] sec = "acceptance_tests" -> TestKeys(doc)

\* the prefix of the names the gates report: `screen:${id}` and so on
KeyPrefix(sec) ==
  CASE sec = "screens" -> "screen:"
    [] sec = "commands" -> "command:"
    [] sec = "tables" -> "table:"
    [] sec = "acceptance_tests" -> "acceptance_test:"

\* every non-citation field of a document
Business(doc) == [f \in (DOMAIN doc) \ {"citations"} |-> doc[f]]

\* mutant: primary_actions is checked as z.array(z.string())
CanonicalValid_NoActionCheck(doc) ==
  /\ doc.app.name # "" /\ doc.app.one_sentence # "" /\ doc.core_loop # ""
  /\ \A i \in 1..Len(doc.screens) :
       doc.screens[i].id # "" /\ doc.screens[i].name # "" /\ doc.screens[i].purpose # ""

\* CanonicalSpecSchema.parse succeeds: the z.string().min(1) constraints
CanonicalValid(doc) ==
  /\ doc.app.name # "" /\ doc.app.one_sentence # "" /\ doc.core_loop # ""
  /\ \A i \in 1..Len(doc.screens) :
       /\ doc.screens[i].id # "" /\ doc.screens[i].name # "" /\ doc.screens[i].purpose # ""
       /\ \A j \in 1..Len(doc.screens[i].primary_actions) : doc.screens[i].primary_actions[j] # ""
  /\ \A i \in 1..Len(doc.rust_commands) :
       doc.rust_commands[i].name # "" /\ doc.rust_commands[i].purpose # ""
  /\ \A i \in 1..Len(doc.data_model.tables) : doc.data_model.tables[i].name # ""


\* the document the normalizer emits when every key cites evidence id 1: the
\* normalizer guarantees at least one screen, command, table and acceptance test,
\* and a citation key for each of them
BaseDoc ==
  [ app |-> [name |-> "A", one_sentence |-> "B"],
    core_loop |-> "x",
    screens |-> <<ScreenOf("main")>>,
    rust_commands |-> <<CommandOf("save")>>,
    data_model |-> [tables |-> <<TableOf("items")>>],
    mvp_plan |-> [milestones |-> <<[week |-> 1, tasks |-> <<"t">>]>>],
    acceptance_tests |-> <<"test1">>,
    citations |-> [ app |-> <<1>>, core_loop |-> <<1>>,
                    screens |-> [k \in {"main"} |-> <<1>>],
                    commands |-> [k \in {"save"} |-> <<1>>],
                    tables |-> [k \in {"items"} |-> <<1>>],
                    acceptance_tests |-> [k \in {"0"} |-> <<1>>] ] ]

\* the citation places a wire document or a patch can name: app, core_loop, the
\* entity of each section, and one name that matches no entity
EntityName(sec) ==
  CASE sec = "screens" -> "main"
    [] sec = "commands" -> "save"
    [] sec = "tables" -> "items"
    [] sec = "acceptance_tests" -> "0"
OrphanName == "ghost"
Places ==
  {<<"app">>, <<"core_loop">>}
    \cup {<<sec, EntityName(sec)>> : sec \in SectionSet}
    \cup {<<sec, OrphanName>> : sec \in SectionSet}

\* doc with the citation list at place pl set to ids
SetPlace(doc, pl, ids) ==
  IF Len(pl) = 1
    THEN [doc EXCEPT !.citations[pl[1]] = ids]
    ELSE [doc EXCEPT !.citations[pl[1]] = Put(@, pl[2], ids)]

RECURSIVE SetPlaces(_, _, _)
SetPlaces(doc, pls, f) ==
  IF pls = {} THEN doc
  ELSE LET pl == CHOOSE x \in pls : TRUE
       IN SetPlaces(SetPlace(doc, pl, f[pl]), pls \ {pl}, f)

\* the normalized documents fed to the bridge: deduplicated sorted lists, every
\* entity has its key, other keys may be present
WireDocs ==
  UNION {{SetPlaces(BaseDoc, G, f) : f \in [G -> SortedLists(MaxCite)]} :
           G \in {H \in SUBSET Places : Cardinality(H) <= MaxGaps}}

----------------------------------------------------------------------------
(* The gates (validateEvidence, qualityGate) and patchOps.                 *)

\* the union of the id lists stored in a citations map
MapIds(m) == UNION {Range(m[k]) : k \in DOMAIN m}

\* Object.values(m), concatenated. A map here does not record the order in
\* which its keys were inserted; the keys are taken in one fixed order.
RECURSIVE MapValues(_)
MapValues(m) ==
  Eval(m, LAMBDA v :
    IF DOMAIN v = {} THEN <<>>
    ELSE Eval(CHOOSE x \in DOMAIN v : TRUE,
              LAMBDA k : v[k] \o MapValues([x \in (DOMAIN v) \ {k} |-> v[x]])))

\* mutant: only the keys of existing entities are collected
collectCitedEvidenceIds_EntitiesOnly(doc) ==
  LET EntityValues(sec) ==
        Flatten([i \in 1..Len(EntityKeys(doc, sec)) |->
                   Get(doc.citations[sec], EntityKeys(doc, sec)[i])])
  IN DedupeFirst(doc.citations.app \o doc.citations.core_loop
                   \o EntityValues("screens") \o EntityValues("commands")
                   \o EntityValues("tables") \o EntityValues("acceptance_tests"))

\* mutant: the ids are pushed to an array, not added to a Set
collectCitedEvidenceIds_Array(doc) ==
  doc.citations.app \o doc.citations.core_loop
    \o MapValues(doc.citations.screens) \o MapValues(doc.citations.commands)
    \o MapValues(doc.citations.tables) \o MapValues(doc.citations.acceptance_tests)

\* ids is a Set: [...ids] lists each id once, in the order of its first add
collectCitedEvidenceIds(doc) ==
  DedupeFirst(doc.citations.app \o doc.citations.core_loop
                \o MapValues(doc.citations.screens) \o MapValues(doc.citations.commands)
                \o MapValues(doc.citations.tables) \o MapValues(doc.citations.acceptance_tests))

evidenceGate(doc, allowedEvidenceIds) ==
  LET allowed == Range(allowedEvidenceIds)
      NotAllowed(id) == id \notin allowed
  IN Eval(SelectSeq(collectCitedEvidenceIds(doc), NotAllowed),
          LAMBDA unknown : [ok |-> Len(unknown) = 0, unknown_ids |-> unknown])

\* the checks of one section, in document order: <<name, ids>>
SectionChecks(doc, sec) ==
  LET keys == EntityKeys(doc, sec)
  IN [i \in 1..Len(keys) |->
        [name |-> KeyPrefix(sec) \o keys[i], ids |-> Get(doc.citations[sec], keys[i])]]

\* every required citation key with its list, in the order both qualityGate and
\* computeMissingCitationKeys visit them
RequiredChecks(doc) ==
  <<[name |-> "app", ids |-> doc.citations.app],
    [name |-> "core_loop", ids |-> doc.citations.core_loop]>>
    \o SectionChecks(doc, "screens") \o SectionChecks(doc, "commands")
    \o SectionChecks(doc, "tables") \o SectionChecks(doc, "acceptance_tests")

IsEmptyCheck(c) == Len(c.ids) = 0
Names(checks) == [i \in 1..Len(checks) |-> checks[i].name]

\* mutant: the ratio is cut off after four decimal places, not rounded
Ratio_Truncated(cited, total) ==
  IF total > 0 THEN (cited * RatioScale) \div total ELSE RatioScale

\* Number((cited / total).toFixed(4)) in units of 1/RatioScale, rounded to nearest
Ratio(cited, total) ==
  IF total > 0 THEN (2 * cited * RatioScale + total) \div (2 * total) ELSE RatioScale

qualityGate(doc, config) ==
  Eval(RequiredChecks(doc), LAMBDA checks :
    Eval(Names(SelectSeq(checks, IsEmptyCheck)), LAMBDA emptyFields :
      LET total == Len(checks)
          cited == total - Len(emptyFields)
          ratio == Ratio(cited, total)
      IN [ ok |-> /\ ~(config.requireNonEmpty /\ Len(emptyFields) > 0)
                  /\ ~(ratio < config.minCoverageRatio),
           empty_fields |-> emptyFields,
           coverage |-> [total |-> total, cited |-> cited, ratio |-> ratio] ]))

\* mutant: app and core_loop are not reported
computeMissingCitationKeys_EntitiesOnly(doc, requireNonEmpty) ==
  Eval(RequiredChecks(doc), LAMBDA checks :
    LET Missing(i) == IsEmptyCheck(checks[i]) /\ requireNonEmpty /\ i > 2
    IN Eval(SortedSeq({i \in 1..Len(checks) : Missing(i)}),
            LAMBDA idx : [j \in 1..Len(idx) |-> checks[idx[j]].name]))

\* app and core_loop are reported whatever requireNonEmpty is
computeMissingCitationKeys(doc, requireNonEmpty) ==
  Eval(RequiredChecks(doc), LAMBDA checks :
    LET Missing(i) == IsEmptyCheck(checks[i]) /\ (requireNonEmpty \/ i <= 2)
    IN Eval(SortedSeq({i \in 1..Len(checks) : Missing(i)}),
            LAMBDA idx : [j \in 1..Len(idx) |-> checks[idx[j]].name]))

\* A CitationsPatch is a function on the top-level keys it has: app and core_loop
\* map to id lists, the four sections to maps from names to id lists.
PatchIds(patch) ==
  UNION {IF k \in {"app", "core_loop"} THEN Range(patch[k]) ELSE MapIds(patch[k]) :
           k \in DOMAIN patch}

\* mutant: walk does not descend into the section maps
unknownIdsFromPatch_TopLevelOnly(patch, allowedEvidenceIds) ==
  {id \in UNION {Range(patch[k]) : k \in (DOMAIN patch) \cap {"app", "core_loop"}} :
     id \notin Range(allowedEvidenceIds)}

unknownIdsFromPatch(patch, allowedEvidenceIds) ==
  {id \in PatchIds(patch) : id \notin Range(allowedEvidenceIds)}

\* mutant: the patch list is united with the list already there
MergeMap_Union(m, pm) ==
  [k \in (DOMAIN m) \cup (DOMAIN pm) |->
     IF k \in DOMAIN pm THEN stableUnique(Get(m, k) \o pm[k]) ELSE m[k]]

\* for (const [k, v] of Object.entries(patch[sec])) out.citations[sec][k] = stableUnique(v)
MergeMap(m, pm) ==
  [k \in (DOMAIN m) \cup (DOMAIN pm) |-> IF k \in DOMAIN pm THEN stableUnique(pm[k]) ELSE m[k]]

PatchedCitations(cit, patch) ==
  [f \in DOMAIN cit |->
     IF f \notin DOMAIN patch THEN cit[f]
     ELSE IF f \in {"app", "core_loop"} THEN stableUnique(patch[f])
     ELSE MergeMap(cit[f], patch[f])]

\* mutant: the patch is written into the argument itself (no structuredClone)
applyCitationsPatch_InPlace(doc, patch) ==
  [arg |-> [doc EXCEPT !.citations = PatchedCitations(@, patch)],
   out |-> [doc EXCEPT !.citations = PatchedCitations(@, patch)]]

\* arg: the object passed as `canonical` as it is after the call (structuredClone
\* keeps it apart from the result); out: the returned object
applyCitationsPatch(doc, patch) ==
  [arg |-> doc, out |-> [doc EXCEPT !.citations = PatchedCitations(@, patch)]]

----------------------------------------------------------------------------
(* cover.ts                                                                *)

\* mutant: a missing key is filled with the ids the app cites
CoverMap_AutoFill(doc, sec) ==
  LET m == doc.citations[sec]
      ents == Range(EntityKeys(doc, sec))
  IN [k \in (DOMAIN m) \cup ents |->
        IF k \notin DOMAIN m THEN stableUnique(doc.citations.app)
        ELSE IF k \in ents THEN stableUnique(m[k]) ELSE m[k]]

\* one section of ensureCitationCoverage: an entity without a key gets an empty
\* list, an entity with a key gets its list deduplicated and sorted
CoverMap(doc, sec) ==
  LET m == doc.citations[sec]
      ents == Range(EntityKeys(doc, sec))
  IN [k \in (DOMAIN m) \cup ents |->
        IF k \notin DOMAIN m THEN <<>>
        ELSE IF k \in ents THEN stableUnique(m[k]) ELSE m[k]]

\* the key of an entity is added where the loop first meets it: a later
\* entity of the same name finds the key
CoverAdded(doc, sec) ==
  LET keys == EntityKeys(doc, sec)
      Adds(i) == /\ keys[i] \notin DOMAIN doc.citations[sec]
                 /\ \A j \in 1..(i - 1) : keys[j] # keys[i]
      idx == SortedSeq({i \in 1..Len(keys) : Adds(i)})
  IN [j \in 1..Len(idx) |-> KeyPrefix(sec) \o keys[idx[j]]]

ensureCitationCoverage(doc) ==
  [ canonical |->
      [doc EXCEPT !.citations =
         [f \in DOMAIN @ |->
            IF f \in {"app", "core_loop"} THEN stableUnique(@[f]) ELSE CoverMap(doc, f)]],
    addedKeys |-> CoverAdded(doc, "screens") \o CoverAdded(doc, "commands")
                    \o CoverAdded(doc, "tables") \o CoverAdded(doc, "acceptance_tests") ]

----------------------------------------------------------------------------
(* runBridge: its arguments.                                               *)

\* a normalized document the canonical schema rejects: the normalizer keeps an
\* empty string inside a screen's primary_actions
InvalidDocs == {[BaseDoc EXCEPT !.screens[1].primary_actions = <<"">>]}

\* wireRaw, by what the stages before the gates make of it
WireRaws ==
  {[parses |-> FALSE, wireValid |-> FALSE, normalized |-> NoDoc],
   [parses |-> TRUE, wireValid |-> FALSE, normalized |-> NoDoc]}
    \cup {[parses |-> TRUE, wireValid |-> TRUE, normalized |-> d] :
            d \in WireDocs \cup InvalidDocs}

\* allow-lists: by the symmetry of ids, the prefixes of 1..MaxId
AllowLists == {SortedSeq(1..k) : k \in 0..MaxId}

\* params.qualityConfig: absent, or a lenient configuration
QualityParams ==
  {EmptyMap, [requireNonEmpty |-> FALSE, minCoverageRatio |-> RatioScale \div 2]}

ParamSets ==
  [ wireRaw : WireRaws,
    allowedEvidenceIds : AllowLists,
    maxRepairAttempts : {NoParam} \cup {<<n>> : n \in -1..MaxRepairParam},
    qualityConfig : QualityParams ]

\* { requireNonEmpty: true, minCoverageRatio: 1, ...(params.qualityConfig ?? {}) }
qualityConfig ==
  [f \in {"requireNonEmpty", "minCoverageRatio"} |->
     IF f \in DOMAIN params.qualityConfig THEN params.qualityConfig[f]
     ELSE IF f = "requireNonEmpty" THEN TRUE ELSE RatioScale]


\* Math.max(0, params.maxRepairAttempts ?? 2)
maxRepairAttempts ==
  Max(0, IF params.maxRepairAttempts = NoParam THEN DefaultMaxRepairAttempts
         ELSE params.maxRepairAttempts[1])

\* the patches repairCitationsWithPatch can return: they pass CitationsPatchSchema
PatchOf(G, f) ==
  [k \in {pl[1] : pl \in G} |->
     IF k \in {"app", "core_loop"} THEN f[<<k>>]
     ELSE [n \in {pl[2] : pl \in {q \in G : q[1] = k}} |-> f[<<k, n>>]]]

Patches(maxKeys, maxLen) ==
  UNION {{PatchOf(G, f) : f \in [G -> SeqsUpTo(Ids, maxLen)]} :
           G \in {H \in SUBSET Places : Cardinality(H) <= maxKeys}}

RepairPatches == Patches(MaxPatchKeys, MaxPatchLen)

----------------------------------------------------------------------------
(* runBridge: the stages before the attempt loop.                          *)

Stage(name, ok, code, detail, stats) ==
  [name |-> name, ok |-> ok, error_code |-> code, error_detail |-> detail, stats |-> stats]
NoCode == "none"

\* the early returns: `report.final = { ok: false, reason, attempts_used: 0 }`
EarlyFinal(reason) == [ok |-> FALSE, reason |-> reason, attempts_used |-> 0]

ReturnFailure == [ok |-> FALSE, canonical |-> NoDoc]

ParseFail ==
  /\ pc = "parse" /\ ~params.wireRaw.parses
  /\ stages' = Append(stages, Stage("parse", FALSE, "PARSE_FAILED", "error", [attempt |-> 0]))
  /\ final' = EarlyFinal("parse failed")
  /\ result' = ReturnFailure
  /\ pc' = "done"
  /\ UNCHANGED <<params, canonical, attempt, repairCalls, repaired, harnessVars>>

ParseOk ==
  /\ pc = "parse" /\ params.wireRaw.parses
  /\ stages' = Append(stages, Stage("parse", TRUE, NoCode, "", [attempt |-> 0]))
  /\ pc' = "wire_validate"
  /\ UNCHANGED <<params, canonical, final, attempt, result, repairCalls, repaired, harnessVars>>

WireValidateFail ==
  /\ pc = "wire_validate" /\ ~params.wireRaw.wireValid
  /\ stages' = Append(stages,
       Stage("wire_validate", FALSE, "WIRE_VALIDATE_FAILED", "error", [attempt |-> 0]))
  /\ final' = EarlyFinal("wire validation failed")
  /\ result' = ReturnFailure
  /\ pc' = "done"
  /\ UNCHANGED <<params, canonical, attempt, repairCalls, repaired, harnessVars>>

WireValidateOk ==
  /\ pc = "wire_validate" /\ params.wireRaw.wireValid
  /\ stages' = Append(stages, Stage("wire_validate", TRUE, NoCode, "", [attempt |-> 0]))
  /\ pc' = "normalize"
  /\ UNCHANGED <<params, canonical, final, attempt, result, repairCalls, repaired, harnessVars>>

\* normalizeWireToCanonical and its stage; the schema check follows
Normalize ==
  /\ pc = "normalize"
  /\ canonical' = params.wireRaw.normalized
  /\ stages' = Append(stages, Stage("normalize", TRUE, NoCode, "", [fixes |-> 0, warnings |-> 0]))
  /\ pc' = "canonical_validate"
  /\ UNCHANGED <<params, final, attempt, result, repairCalls, repaired, harnessVars>>

CanonicalValidateFail ==
  /\ pc = "canonical_validate" /\ ~CanonicalValid(canonical)
  /\ stages' = Append(stages,
       Stage("canonical_validate", FALSE, "CANONICAL_VALIDATE_FAILED", "error", [attempt |-> 0]))
  /\ final' = EarlyFinal("canonical validation failed")
  /\ result' = ReturnFailure
  /\ pc' = "done"
  /\ UNCHANGED <<params, canonical, attempt, repairCalls, repaired, harnessVars>>

\* ensureCitationCoverage, its stage, and the second schema check; the loop
\* starts with attempt = 0, and 0 <= maxRepairAttempts
Cover ==
  /\ pc = "canonical_validate" /\ CanonicalValid(canonical)
  /\ LET covered == ensureCitationCoverage(canonical)
         coverStage == Stage("cover", TRUE, NoCode, "",
                             [added_keys_count |-> Len(covered.addedKeys)])
     IN /\ canonical' = covered.canonical
        /\ IF CanonicalValid(covered.canonical)
             THEN /\ stages' = stages \o <<coverStage,
                       Stage("canonical_validate", TRUE, NoCode, "", [attempt |-> 0])>>
                  /\ pc' = "gates"
                  /\ UNCHANGED <<final, result>>
             ELSE /\ stages' = stages \o <<coverStage,
                       Stage("canonical_validate", FALSE, "CANONICAL_VALIDATE_FAILED", "error",
                             [attempt |-> 0])>>
                  /\ final' = EarlyFinal("canonical validation failed after cover")
                  /\ result' = ReturnFailure
                  /\ pc' = "done"
  /\ attempt' = 0
  /\ UNCHANGED <<params, repairCalls, repaired, harnessVars>>

----------------------------------------------------------------------------
(* runBridge: the attempt loop.                                            *)

EvidenceStage(evidence, att) ==
  Stage("evidence_gate", evidence.ok,
        IF evidence.ok THEN NoCode ELSE "UNKNOWN_EVIDENCE_IDS",
        evidence.unknown_ids,
        [unknown_ids_count |-> Len(evidence.unknown_ids), attempt |-> att])

QualityStage(quality, att) ==
  Stage("quality_gate", quality.ok,
        IF quality.ok THEN NoCode ELSE "QUALITY_GATE_FAILED",
        Slice(quality.empty_fields, EmptyFieldsShown),
        [total |-> quality.coverage.total, cited |-> quality.coverage.cited,
         ratio |-> quality.coverage.ratio, empty_fields |-> Len(quality.empty_fields),
         attempt |-> att])

\* mutant: one passing gate is enough
GatesOk_Either(evidence, quality) == evidence.ok \/ quality.ok

\* if (evidence.ok && quality.ok)
GatesOk(evidence, quality) == evidence.ok /\ quality.ok

\* mutant: only the lack of keys stops the repairs
StopRepair_KeysOnly(att, maxAttempts, missingKeys) == Len(missingKeys) = 0

\* mutant: attempt > maxRepairAttempts
StopRepair_OffByOne(att, maxAttempts, missingKeys) ==
  att > maxAttempts \/ Len(missingKeys) = 0

\* mutant: the last repair attempt is never made
StopRepair_Early(att, maxAttempts, missingKeys) ==
  att + 1 >= maxAttempts \/ Len(missingKeys) = 0

\* if (attempt >= maxRepairAttempts || missingKeys.length === 0)
StopRepair(att, maxAttempts, missingKeys) == att >= maxAttempts \/ Len(missingKeys) = 0

SuccessFinal(quality, att) ==
  [ok |-> TRUE, unknown_ids_count |-> 0, empty_fields_count |-> 0,
   coverage_ratio |-> quality.coverage.ratio, attempts_used |-> att]

\* mutant: the failure report carries zero counts
FailFinal_ZeroCounts(evidence, quality, att) ==
  [ok |-> FALSE,
   reason |-> IF evidence.ok THEN "quality gate failed" ELSE "evidence gate failed",
   unknown_ids_count |-> 0,
   empty_fields_count |-> 0,
   coverage_ratio |-> quality.coverage.ratio,
   attempts_used |-> att]

\* mutant: the failure report leaves the counts out
FailFinal_NoCounts(evidence, quality, att) ==
  [ok |-> FALSE,
   reason |-> IF evidence.ok THEN "quality gate failed" ELSE "evidence gate failed",
   attempts_used |-> att]

FailFinal(evidence, quality, att) ==
  [ok |-> FALSE,
   reason |-> IF evidence.ok THEN "quality gate failed" ELSE "evidence gate failed",
   unknown_ids_count |-> Len(evidence.unknown_ids),
   empty_fields_count |-> Len(quality.empty_fields),
   coverage_ratio |-> quality.coverage.ratio,
   attempts_used |-> att]

\* mutant: the attempt index is kept
NextAttempt_Same(att) == att

\* the loop's `attempt += 1`, reached after a merged patch, by `continue` after a
\* rejected patch, and after the catch block
NextAttempt(att) == att + 1

\* both gates ran at this attempt and passed: return the candidate
GatesPass ==
  /\ pc = "gates"
  /\ \E evidence \in {evidenceGate(canonical, params.allowedEvidenceIds)},
        quality \in {qualityGate(canonical, qualityConfig)} :
        /\ GatesOk(evidence, quality)
        /\ stages' = stages \o <<EvidenceStage(evidence, attempt), QualityStage(quality, attempt)>>
        /\ final' = SuccessFinal(quality, attempt)
        /\ result' = [ok |-> TRUE, canonical |-> canonical]
  /\ pc' = "done"
  /\ repaired' = NoDoc
  /\ UNCHANGED <<params, canonical, attempt, repairCalls, harnessVars>>

\* a gate failed and no repair is possible: return the failure
GatesFail ==
  /\ pc = "gates"
  /\ \E evidence \in {evidenceGate(canonical, params.allowedEvidenceIds)},
        quality \in {qualityGate(canonical, qualityConfig)},
        missingKeys \in {computeMissingCitationKeys(canonical, TRUE)} :
        /\ ~GatesOk(evidence, quality)
        /\ StopRepair(attempt, maxRepairAttempts, missingKeys)
        /\ stages' = stages \o <<EvidenceStage(evidence, attempt), QualityStage(quality, attempt)>>
        /\ final' = FailFinal(evidence, quality, attempt)
        /\ result' = ReturnFailure
  /\ pc' = "done"
  /\ repaired' = NoDoc
  /\ UNCHANGED <<params, canonical, attempt, repairCalls, harnessVars>>

\* a gate failed and repair is possible: repairCitationsWithPatch is called and
\* runBridge awaits it
GatesRepair ==
  /\ pc = "gates"
  /\ \E evidence \in {evidenceGate(canonical, params.allowedEvidenceIds)},
        quality \in {qualityGate(canonical, qualityConfig)},
        missingKeys \in {computeMissingCitationKeys(canonical, TRUE)} :
        /\ ~GatesOk(evidence, quality)
        /\ ~StopRepair(attempt, maxRepairAttempts, missingKeys)
        /\ stages' = stages \o <<EvidenceStage(evidence, attempt), QualityStage(quality, attempt)>>
  /\ final' = [final EXCEPT !.attempts_used = attempt]
  /\ repairCalls' = repairCalls + 1
  /\ pc' = "repair"
  /\ repaired' = NoDoc
  /\ UNCHANGED <<params, canonical, attempt, result, harnessVars>>

RepairStats == [attempt |-> attempt + 1,
                missing_keys_count |-> Len(computeMissingCitationKeys(canonical, TRUE))]

\* the end of a loop round: the increment and the loop condition; when the
\* condition fails, the statements after the loop
LoopBack ==
  /\ attempt' = NextAttempt(attempt)
  /\ IF NextAttempt(attempt) <= maxRepairAttempts
       THEN pc' = "gates" /\ UNCHANGED <<final, result>>
       ELSE /\ final' = [ok |-> FALSE, reason |-> "bridge exhausted",
                         attempts_used |-> maxRepairAttempts]
            /\ result' = ReturnFailure
            /\ pc' = "done"

\* the repair call returned a patch whose ids are all allowed: merge it
RepairPatched ==
  /\ pc = "repair"
  /\ \E patch \in RepairPatches :
       /\ unknownIdsFromPatch(patch, params.allowedEvidenceIds) = {}
       /\ repaired' = [patch |-> patch]
       /\ canonical' = applyCitationsPatch(canonical, patch).out
  /\ stages' = Append(stages, Stage("repair", TRUE, NoCode, "", RepairStats))
  /\ LoopBack
  /\ UNCHANGED <<params, repairCalls, harnessVars>>

\* the repair call returned a patch with an id outside the allow-list
RepairUnknownId ==
  /\ pc = "repair"
  /\ \E patch \in RepairPatches :
       LET unknownFromPatch == unknownIdsFromPatch(patch, params.allowedEvidenceIds)
       IN /\ unknownFromPatch # {}
          /\ repaired' = [patch |-> patch]
          /\ stages' = Append(stages,
               Stage("repair", FALSE, "REPAIR_PATCH_UNKNOWN_ID", unknownFromPatch, RepairStats))
  /\ LoopBack
  /\ UNCHANGED <<params, canonical, repairCalls, harnessVars>>

\* the repair call threw: the model's answer was no JSON, failed the patch
\* schema, or the transport failed
RepairThrows ==
  /\ pc = "repair"
  /\ stages' = Append(stages, Stage("repair", FALSE, "REPAIR_PATCH_FAILED", "error", RepairStats))
  /\ repaired' = [threw |-> TRUE]
  /\ LoopBack
  /\ UNCHANGED <<params, canonical, repairCalls, harnessVars>>

----------------------------------------------------------------------------
(* The bridge specification: one call of runBridge on every input.         *)

IdlePatch == pdoc = NoDoc /\ ppatch = EmptyMap /\ pout = NoDoc /\ ppc = "idle"
IdleNormalize == wire = NoDoc /\ normalized = NoDoc /\ renormalized = NoDoc
IdleV3 ==
  /\ v3raw = NoDoc /\ v3pc = "idle" /\ v3wire = NoDoc /\ v3normalized = NoDoc
  /\ v3stages = <<>> /\ v3final = NoDoc /\ v3result = NoDoc
IdleGates == gdoc = NoDoc /\ gallowed = <<>> /\ gconfig = NoDoc /\ gout = NoDoc
IdleSchema == sdoc = NoDoc /\ sout = NoDoc
IdleNode ==
  /\ nconfig = NoDoc /\ ncards = <<>> /\ npc = "idle" /\ nrepo = 0 /\ niter = 0
  /\ nlocal = NoDoc /\ nbudget = NoDoc /\ nout = NoDoc /\ nhist = NoDoc
IdleClassify == cin = NoDoc /\ cout = NoDoc
IdleRetry == rcfg = NoDoc /\ rpc = "idle" /\ rattempt = 0 /\ rerrors = <<>> /\ rcalls = 0 /\ revents = <<>> /\ rresult = NoDoc
IdleMap == mitems = 0 /\ mlimit = 0 /\ mnext = 0 /\ mworkers = <<>> /\ mresults = <<>> /\ minvoked = <<>> /\ mreturn = NoDoc
IdleDedupe == dindex = <<>> /\ dhist = <<>>
IdleTopic == tcfg = NoDoc /\ tstate = NoDoc /\ tlast = NoDoc /\ tpending = FALSE
IdleCover == covdoc = NoDoc /\ covcfg = NoDoc /\ covruns = <<>>
IdleEnrich == ecfg = NoDoc /\ ecard = NoDoc /\ egap = NoDoc /\ eiters = <<>> /\ eentry = NoDoc /\ epc = "idle"
IdleBudget == bcfg = NoDoc /\ bstate = NoDoc /\ bnow = 0 /\ bloop = NoDoc /\ btrace = NoDoc
IdleIndex == xfile = NoDoc /\ xrun = NoDoc /\ xhist = <<>>
IdleExtra == IdleNode /\ IdleClassify /\ IdleRetry /\ IdleMap /\ IdleDedupe /\ IdleTopic /\ IdleCover /\ IdleEnrich /\ IdleBudget /\ IdleIndex
IdleOthers == IdleNormalize /\ IdleV3 /\ IdleGates /\ IdleSchema /\ IdleExtra

Init ==
  /\ params \in ParamSets
  /\ pc = "parse"
  /\ canonical = NoDoc
  /\ stages = <<>>
  /\ final = [ok |-> FALSE, attempts_used |-> 0]
  /\ attempt = 0
  /\ result = NoDoc
  /\ repairCalls = 0
  /\ repaired = NoDoc
  /\ IdlePatch
  /\ IdleOthers

Next ==
  \/ ParseFail \/ ParseOk
  \/ WireValidateFail \/ WireValidateOk
  \/ Normalize
  \/ CanonicalValidateFail \/ Cover
  \/ GatesPass \/ GatesFail \/ GatesRepair
  \/ RepairPatched \/ RepairUnknownId \/ RepairThrows

Spec == Init /\ [][Next]_vars

\* runBridge is one async function: once called it runs to its return, and the
\* awaited repair call settles (it resolves or rejects)
FairSpec == Spec /\ WF_vars(Next)

----------------------------------------------------------------------------
(* applyCitationsPatch on its own: one call on every document and patch.   *)

\* a document with two screens, one of them without citations, and a list that
\* is not sorted (applyCitationsPatch accepts any CanonicalSpec)
TwoScreenDoc ==
  [BaseDoc EXCEPT !.screens = <<ScreenOf("main"), ScreenOf("other")>>,
                  !.citations.screens = [k \in {"main", "other"} |->
                                           IF k = "main" THEN <<MaxId, 1>> ELSE <<>>]]

\* every key cites the last id, and every section has a key that matches no entity
OrphanDoc ==
  [BaseDoc EXCEPT !.citations =
     [f \in DOMAIN @ |->
        IF f \in {"app", "core_loop"} THEN <<MaxId>>
        ELSE [k \in {EntityName(f), OrphanName} |-> <<MaxId>>]]]

PatchDocs == {BaseDoc, TwoScreenDoc, OrphanDoc}

\* a patch that has a section with no entry: `screens: {}`
EmptySectionPatches == {[k \in {sec} |-> EmptyMap] : sec \in SectionSet}

HarnessPatches == Patches(MaxHarnessKeys, MaxListLen) \cup EmptySectionPatches

IdleBridge ==
  /\ params = NoDoc /\ pc = "idle" /\ canonical = NoDoc /\ stages = <<>>
  /\ final = NoDoc /\ attempt = 0 /\ result = NoDoc /\ repairCalls = 0 /\ repaired = NoDoc

\* each of the following harnesses runs alone: the other groups stay idle
IdleCore == IdleBridge /\ IdlePatch /\ IdleNormalize /\ IdleV3 /\ IdleGates
    /\ IdleSchema
NodeOthers == <<coreVars, classVars, retryVars, mapVars, dedupeVars, topicVars,
    coverVars, enrichVars, budgetVars, indexVars>>
NodeAlone == IdleCore /\ IdleClassify /\ IdleRetry /\ IdleMap /\ IdleDedupe /\ IdleTopic
    /\ IdleCover /\ IdleEnrich /\ IdleBudget /\ IdleIndex
ClassifyOthers == <<coreVars, nodeVars, retryVars, mapVars, dedupeVars, topicVars,
    coverVars, enrichVars, budgetVars, indexVars>>
ClassifyAlone == IdleCore /\ IdleNode /\ IdleRetry /\ IdleMap /\ IdleDedupe /\ IdleTopic
    /\ IdleCover /\ IdleEnrich /\ IdleBudget /\ IdleIndex
RetryOthers == <<coreVars, nodeVars, classVars, mapVars, dedupeVars, topicVars,
    coverVars, enrichVars, budgetVars, indexVars>>
RetryAlone == IdleCore /\ IdleNode /\ IdleClassify /\ IdleMap /\ IdleDedupe /\ IdleTopic
    /\ IdleCover /\ IdleEnrich /\ IdleBudget /\ IdleIndex
MapOthers == <<coreVars, nodeVars, classVars, retryVars, dedupeVars, topicVars,
    coverVars, enrichVars, budgetVars, indexVars>>
MapAlone == IdleCore /\ IdleNode /\ IdleClassify /\ IdleRetry /\ IdleDedupe /\ IdleTopic
    /\ IdleCover /\ IdleEnrich /\ IdleBudget /\ IdleIndex
DedupeOthers == <<coreVars, nodeVars, classVars, retryVars, mapVars, topicVars,
    coverVars, enrichVars, budgetVars, indexVars>>
DedupeAlone == IdleCore /\ IdleNode /\ IdleClassify /\ IdleRetry /\ IdleMap /\ IdleTopic
    /\ IdleCover /\ IdleEnrich /\ IdleBudget /\ IdleIndex
TopicOthers == <<coreVars, nodeVars, classVars, retryVars, mapVars, dedupeVars,
    coverVars, enrichVars, budgetVars, indexVars>>
TopicAlone == IdleCore /\ IdleNode /\ IdleClassify /\ IdleRetry /\ IdleMap /\ IdleDedupe
    /\ IdleCover /\ IdleEnrich /\ IdleBudget /\ IdleIndex
CoverOthers == <<coreVars, nodeVars, classVars, retryVars, mapVars, dedupeVars,
    topicVars, enrichVars, budgetVars, indexVars>>
CoverAlone == IdleCore /\ IdleNode /\ IdleClassify /\ IdleRetry /\ IdleMap /\ IdleDedupe
    /\ IdleTopic /\ IdleEnrich /\ IdleBudget /\ IdleIndex
EnrichOthers == <<coreVars, nodeVars, classVars, retryVars, mapVars, dedupeVars,
    topicVars, coverVars, budgetVars, indexVars>>
EnrichAlone == IdleCore /\ IdleNode /\ IdleClassify /\ IdleRetry /\ IdleMap
    /\ IdleDedupe /\ IdleTopic /\ IdleCover /\ IdleBudget /\ IdleIndex
BudgetOthers == <<coreVars, nodeVars, classVars, retryVars, mapVars, dedupeVars,
    topicVars, coverVars, enrichVars, indexVars>>
BudgetAlone == IdleCore /\ IdleNode /\ IdleClassify /\ IdleRetry /\ IdleMap
    /\ IdleDedupe /\ IdleTopic /\ IdleCover /\ IdleEnrich /\ IdleIndex
IndexOthers == <<coreVars, nodeVars, classVars, retryVars, mapVars, dedupeVars,
    topicVars, coverVars, enrichVars, budgetVars>>
IndexAlone == IdleCore /\ IdleNode /\ IdleClassify /\ IdleRetry /\ IdleMap /\ IdleDedupe
    /\ IdleTopic /\ IdleCover /\ IdleEnrich /\ IdleBudget

PatchInit ==
  /\ pdoc \in PatchDocs
  /\ ppatch \in HarnessPatches
  /\ pout = NoDoc
  /\ ppc = "call"
  /\ IdleBridge
  /\ IdleOthers

\* the call: pout holds the returned document and the argument as the call left it
ApplyPatch ==
  /\ ppc = "call"
  /\ pout' = applyCitationsPatch(pdoc, ppatch)
  /\ ppc' = "returned"
  /\ UNCHANGED <<pdoc, ppatch, bridgeVars, normVars, v3Vars, gateVars, schemaVars, extraVars>>

PatchNext == ApplyPatch

PatchSpec == PatchInit /\ [][PatchNext]_vars

----------------------------------------------------------------------------
(* Strings, as the schema-v3 normalizer uses them.                         *)

CharAt(s, i) == SubSeq(s, i, i)
Rest(s) == SubSeq(s, 2, Len(s))

Lowers == "abcdefghijklmnopqrstuvwxyz"
Uppers == "ABCDEFGHIJKLMNOPQRSTUVWXYZ"

\* the position of character c in alphabet, 0 when it is not there
IndexIn(c, alphabet) ==
  IF \E i \in 1..Len(alphabet) : CharAt(alphabet, i) = c
  THEN CHOOSE i \in 1..Len(alphabet) : CharAt(alphabet, i) = c
  ELSE 0

toLowerChar(c) == IF IndexIn(c, Uppers) > 0 THEN CharAt(Lowers, IndexIn(c, Uppers)) ELSE c

RECURSIVE toLowerCase(_)
toLowerCase(s) == IF s = "" THEN "" ELSE toLowerChar(CharAt(s, 1)) \o toLowerCase(Rest(s))

RECURSIVE trimStart(_)
trimStart(s) == IF s # "" /\ CharAt(s, 1) = " " THEN trimStart(Rest(s)) ELSE s

RECURSIVE trimEnd(_)
trimEnd(s) ==
  IF s # "" /\ CharAt(s, Len(s)) = " " THEN trimEnd(SubSeq(s, 1, Len(s) - 1)) ELSE s

trim(s) == trimEnd(trimStart(s))

startsWith(s, prefix) == Len(s) >= Len(prefix) /\ SubSeq(s, 1, Len(prefix)) = prefix
endsWith(s, suffix) ==
  Len(s) >= Len(suffix) /\ SubSeq(s, Len(s) - Len(suffix) + 1, Len(s)) = suffix
includes(s, part) ==
  \E i \in 1..(Len(s) - Len(part) + 1) : SubSeq(s, i, i + Len(part) - 1) = part

\* the collation order of the characters the model uses: white space, then
\* punctuation, then symbols, then digits, then letters
CollationOrder == " _-:?.<>0123456789abcdefghijklmnopqrstuvwxyz"

CollationRank(c) == IndexIn(toLowerChar(c), CollationOrder)

\* first level of the comparison: letters without their case
RECURSIVE PrimaryCompare(_, _)
PrimaryCompare(a, b) ==
  IF a = "" THEN (IF b = "" THEN 0 ELSE -1)
  ELSE IF b = "" THEN 1
  ELSE IF CollationRank(CharAt(a, 1)) < CollationRank(CharAt(b, 1)) THEN -1
  ELSE IF CollationRank(CharAt(a, 1)) > CollationRank(CharAt(b, 1)) THEN 1
  ELSE PrimaryCompare(Rest(a), Rest(b))

\* last level, for strings equal at the first: lower case before upper case
RECURSIVE CaseCompare(_, _)
CaseCompare(a, b) ==
  IF a = "" \/ b = "" THEN 0
  ELSE IF CharAt(a, 1) = CharAt(b, 1) THEN CaseCompare(Rest(a), Rest(b))
  ELSE IF CharAt(a, 1) = toLowerChar(CharAt(a, 1)) THEN -1 ELSE 1

localeCompare(a, b) ==
  IF PrimaryCompare(a, b) # 0 THEN PrimaryCompare(a, b) ELSE CaseCompare(a, b)

\* Array.prototype.sort with a localeCompare comparator is stable: an element
\* goes after every earlier element that does not compare greater
RECURSIVE InsertKeyed(_, _)
InsertKeyed(p, s) ==
  IF s = <<>> THEN <<p>>
  ELSE IF localeCompare(p[1], s[1][1]) < 0 THEN <<p>> \o s
  ELSE <<s[1]>> \o InsertKeyed(p, Tail(s))

RECURSIVE SortKeyed(_)
SortKeyed(s) ==
  IF s = <<>> THEN <<>>
  ELSE InsertKeyed(s[Len(s)], SortKeyed(SubSeq(s, 1, Len(s) - 1)))

\* xs.sort((a, b) => a.name.localeCompare(b.name))
SortByName(xs) ==
  LET sorted == SortKeyed([i \in 1..Len(xs) |-> <<xs[i].name, xs[i]>>])
  IN [i \in 1..Len(xs) |-> sorted[i][2]]

\* xs.sort((a, b) => a.localeCompare(b))
SortStrings(xs) ==
  LET sorted == SortKeyed([i \in 1..Len(xs) |-> <<xs[i], xs[i]>>])
  IN [i \in 1..Len(xs) |-> sorted[i][2]]

----------------------------------------------------------------------------
(* The schema-v3 normalizer (scripts/bridge/normalize.ts): command I/O.    *)

\* JSON values as a command's input/output can hold them. An absent property
\* reads as Undefined. A dictionary is a function from its keys; the order
\* of its keys is not part of the value.
Undefined == [t |-> "undefined"]
Null == [t |-> "null"]
Str(s) == [t |-> "string", s |-> s]
Bool(b) == [t |-> "boolean", b |-> b]
Num(n) == [t |-> "number", v |-> n, isInteger |-> TRUE]
Float(n) == [t |-> "number", v |-> n, isInteger |-> FALSE]
Arr(xs) == [t |-> "array", a |-> xs]
Obj(f) == [t |-> "object", o |-> f]

\* o.k, for an object o given as the function of its properties
Prop(o, k) == IF k \in DOMAIN o THEN o[k] ELSE Undefined

\* a value that is absent, or of another type than expected, is given as
\* <<>>; a present one as <<value>>
Opt(o, k) == IF k \in DOMAIN o THEN <<o[k]>> ELSE <<>>

\* asString(value, fallback), value given as an optional string
asString(value, fallback) ==
  IF value # <<>> /\ trim(value[1]) # "" THEN value[1] ELSE fallback

IoBaseTypes == {"string", "boolean", "int", "float", "timestamp", "json"}

\* IO_TYPE_REGEX.test(v)
IO_TYPE_REGEX(v) ==
  \/ v \in IoBaseTypes
  \/ endsWith(v, "?") /\ SubSeq(v, 1, Len(v) - 1) \in IoBaseTypes

PLACEHOLDER_KEYS == {"placeholder", "todo", "tbd", "example", "dummy", "mock"}

isPlaceholderKey(key) == toLowerCase(key) \in PLACEHOLDER_KEYS

isPlainObject(value) == value.t = "object"

\* string | null, given as <<string>> | <<>>
maybeIoTypeString(value) ==
  LET n == toLowerCase(trim(value))
  IN IF n = "" THEN <<>>
     ELSE IF IO_TYPE_REGEX(n) THEN <<n>>
     ELSE IF n = "integer" THEN <<"int">>
     ELSE IF n \in {"real", "number"} THEN <<"float">>
     ELSE IF n = "bool" THEN <<"boolean">>
     ELSE IF n \in {"datetime", "date", "time"} THEN <<"timestamp">>
     ELSE IF n \in {"object", "array", "map", "dict"} THEN <<"json">>
     ELSE <<>>

scalarToIoType(value) ==
  IF value.t = "string"
    THEN (IF maybeIoTypeString(value.s) # <<>> THEN maybeIoTypeString(value.s) ELSE <<"string">>)
  ELSE IF value.t = "boolean" THEN <<"boolean">>
  ELSE IF value.t = "number" THEN (IF value.isInteger THEN <<"int">> ELSE <<"float">>)
  ELSE IF value.t \in {"null", "undefined"} THEN <<>>
  ELSE <<"json">>

\* { ...low, ...high }
Spread(low, high) ==
  [k \in (DOMAIN low) \cup (DOMAIN high) |-> IF k \in DOMAIN high THEN high[k] ELSE low[k]]

Without(f, keys) == [k \in (DOMAIN f) \ keys |-> f[k]]

unwrapRequest(input) ==
  IF ~isPlainObject(input) THEN input
  ELSE IF ~("request" \in DOMAIN input.o /\ isPlainObject(input.o["request"])) THEN input
  ELSE Obj(Spread(input.o["request"].o, Without(input.o, {"request"})))

toIoFieldDict(input) ==
  LET unwrapped == unwrapRequest(input)
  IN IF ~isPlainObject(unwrapped) THEN EmptyMap
     ELSE LET kept == {k \in DOMAIN unwrapped.o :
                         /\ trim(k) # ""
                         /\ ~isPlaceholderKey(k)
                         /\ scalarToIoType(unwrapped.o[k]) # <<>>}
          IN [k \in kept |-> scalarToIoType(unwrapped.o[k])[1]]

isInvalidIoFieldDict(dict) ==
  \/ DOMAIN dict = {}
  \/ \E k \in DOMAIN dict : isPlaceholderKey(k)
  \/ \E k \in DOMAIN dict : ~IO_TYPE_REGEX(dict[k])

ColumnTypes == {"TEXT", "INTEGER", "REAL", "BOOLEAN", "BLOB", "JSON", "DATETIME"}

IntegerSynonyms == {"int", "integer", "i32", "i64", "u32", "u64", "number_int"}
RealSynonyms == {"float", "double", "real", "decimal", "number_float", "number", "f32", "f64"}
BooleanSynonyms == {"bool", "boolean"}
BlobSynonyms == {"blob", "binary", "bytes"}
JsonSynonyms ==
  {"json", "jsonb", "object", "map", "dict", "array", "list", "set", "any", "function",
   "vector", "typescript type", "optional string", "array<string>", "string?", "enum",
   "foreign_key"}
DatetimeSynonyms == {"datetime", "timestamp", "date", "time"}
TextSynonyms == {"string", "str", "text", "varchar", "char"}

normalizeColumnType_AsIs(raw) == IF raw = <<>> THEN "TEXT" ELSE raw[1]

\* raw is <<string>>, or <<>> for a value that is not a string
normalizeColumnType(raw) ==
  LET text == IF raw # <<>> THEN toLowerCase(trim(raw[1])) ELSE ""
  IN IF text = "" THEN "TEXT"
     ELSE IF text \in IntegerSynonyms THEN "INTEGER"
     ELSE IF text \in RealSynonyms THEN "REAL"
     ELSE IF text \in BooleanSynonyms THEN "BOOLEAN"
     ELSE IF text \in BlobSynonyms THEN "BLOB"
     ELSE IF text \in JsonSynonyms THEN "JSON"
     ELSE IF text \in DatetimeSynonyms THEN "DATETIME"
     ELSE IF text \in TextSynonyms THEN "TEXT"
     ELSE IF startsWith(text, "array<") THEN "JSON"
     ELSE IF endsWith(text, "?") THEN "TEXT"
     ELSE "TEXT"

ioTypeFromColumnType(type) ==
  LET c == normalizeColumnType(<<type>>)
  IN IF c = "INTEGER" THEN "int"
     ELSE IF c = "REAL" THEN "float"
     ELSE IF c = "BOOLEAN" THEN "boolean"
     ELSE IF c \in {"JSON", "BLOB"} THEN "json"
     ELSE IF c = "DATETIME" THEN "timestamp"
     ELSE "string"

\* the number of columns buildPayloadFromTable takes
PayloadColumns == 6

\* tables is never empty where validateCommandIO is called
buildPayloadFromTable(table) ==
  LET cols == SelectSeq(table.columns, LAMBDA c : toLowerCase(c.name) # "id")
      taken == Slice(cols, PayloadColumns)
  IN [k \in {taken[i].name : i \in 1..Len(taken)} |->
        ioTypeFromColumnType(
          taken[CHOOSE i \in 1..Len(taken) :
                  taken[i].name = k /\ \A j \in (i + 1)..Len(taken) : taken[j].name # k].type)]

buildCommandTemplate(commandName) ==
  LET lower == toLowerCase(commandName)
  IN IF startsWith(lower, "lint_") THEN
       [input |-> [file_path |-> "string", tool_type |-> "string?"],
        output |-> [ok |-> "boolean", message |-> "string?", diagnostics |-> "json?"]]
     ELSE IF startsWith(lower, "apply_") \/ startsWith(lower, "fix_") THEN
       [input |-> [file_path |-> "string", fix_ids |-> "json?"],
        output |-> [ok |-> "boolean", message |-> "string?", changed |-> "boolean?",
                    diff |-> "string?"]]
     ELSE IF startsWith(lower, "connect_") THEN
       [input |-> [endpoint |-> "string", timeout_ms |-> "int?"],
        output |-> [connected |-> "boolean", endpoint |-> "string",
                    connected_at |-> "timestamp"]]
     ELSE IF startsWith(lower, "list_") THEN
       [input |-> [query |-> "string?", limit |-> "int?", offset |-> "int?"],
        output |-> [items |-> "json", total |-> "int?"]]
     ELSE
       [input |-> [payload |-> "json"],
        output |-> [ok |-> "boolean", result |-> "json?"]]

mergeMissing(base, patch) == Spread(patch, base)

\* the keys of a side in collation order (the notes of dropped keys follow it)
RECURSIVE SeqOfSet(_)
SeqOfSet(S) == IF S = {} THEN <<>> ELSE LET x == CHOOSE x \in S : TRUE IN <<x>> \o SeqOfSet(S \ {x})

KeysInOrder(dict) == SortStrings(SeqOfSet(DOMAIN dict))

validateCommandIO_KeepEmpty(command, tables) ==
  [input |-> toIoFieldDict(command.input),
   output |-> toIoFieldDict(command.output),
   fixes |-> <<>>]

\* returns the two dictionaries and the notes pushed to fixes, in order; the
\* local operators are the successive values of `input` and `output`
validateCommandIO(command, tables) ==
  LET name == command.name
      verbs == {"create", "insert", "add", "save", "apply", "fix", "update", "delete", "remove"}
      Stripped(side) == Without(side, {"request"} \cup {k \in DOMAIN side : isPlaceholderKey(k)})
      PlaceholderNotes(side) ==
        LET DropNotes(ks) ==
              [i \in 1..Len(ks) |->
                 "rule:command_io_drop_placeholder_key:" \o name \o "." \o ks[i]]
        IN DropNotes(SelectSeq(KeysInOrder(side), isPlaceholderKey))
      RequestNote(side) ==
        IF "request" \in DOMAIN side THEN <<"rule:command_io_strip_request:" \o name>> ELSE <<>>
      Note(wrong, text) == IF wrong THEN <<text \o name>> ELSE <<>>
      \* lines 217-223
      Cleaned(in0, out0, in1, out1, in2, out2, in3, out3) ==
        [input |-> IF DOMAIN in3 = {} THEN [payload |-> "json"] ELSE in3,
         output |-> IF DOMAIN out3 = {} THEN [ok |-> "boolean", result |-> "json?"] ELSE out3,
         fixes |->
           Note(isInvalidIoFieldDict(in0), "rule:command_io_enriched:input:")
           \o Note(isInvalidIoFieldDict(out0), "rule:command_io_enriched:output:")
           \o Note(isInvalidIoFieldDict(in1), "rule:command_io_fallback:input:")
           \o Note(isInvalidIoFieldDict(out1), "rule:command_io_fallback:output:")
           \o RequestNote(in2) \o PlaceholderNotes(in2)
           \o RequestNote(out2) \o PlaceholderNotes(out2)]
      \* lines 204-216
      Fallen(in0, out0, in1, out1, in2, out2) ==
        Cleaned(in0, out0, in1, out1, in2, out2, Stripped(in2), Stripped(out2))
      \* lines 195-202
      Enriched(in0, out0, in1, out1) ==
        Fallen(in0, out0, in1, out1,
               IF isInvalidIoFieldDict(in1) THEN [payload |-> "json"] ELSE in1,
               IF isInvalidIoFieldDict(out1) THEN [ok |-> "boolean", result |-> "json?"]
               ELSE out1)
      \* lines 181-194
      Parsed(in0, out0, template, inferredFromDataModel, text) ==
        Enriched(in0, out0,
                 IF ~isInvalidIoFieldDict(in0) THEN in0
                 ELSE IF DOMAIN inferredFromDataModel # {}
                   THEN mergeMissing(mergeMissing(in0, template.input), inferredFromDataModel)
                 ELSE mergeMissing(in0, template.input),
                 IF ~isInvalidIoFieldDict(out0) THEN out0
                 ELSE IF \E v \in verbs : includes(text, v)
                   THEN mergeMissing(mergeMissing(out0, template.output), [ok |-> "boolean"])
                 ELSE mergeMissing(out0, template.output))
  IN Parsed(toIoFieldDict(command.input), toIoFieldDict(command.output),
            buildCommandTemplate(name), buildPayloadFromTable(tables[1]),
            toLowerCase(command.name \o " " \o command.purpose))

----------------------------------------------------------------------------
(* The schema-v3 normalizer: names, sections, the document.                *)

RECURSIVE NextFreeName(_, _, _)
NextFreeName(base, n, used) ==
  IF (base \o "_" \o ToString(n)) \notin used THEN base \o "_" \o ToString(n)
  ELSE NextFreeName(base, n + 1, used)

uniqueName_NoLoop(baseRaw, used) ==
  LET base == IF trim(baseRaw) # "" THEN trim(baseRaw) ELSE "item"
  IN IF base \notin used THEN base ELSE base \o "_2"

\* the returned name; the caller's set `used` gains it
uniqueName(baseRaw, used) ==
  LET base == IF trim(baseRaw) # "" THEN trim(baseRaw) ELSE "item"
  IN IF base \notin used THEN base ELSE NextFreeName(base, 2, used)

\* the names a `for` loop over the items assigns with one `used` set
RECURSIVE uniqueNames(_)
uniqueNames(raws) ==
  IF raws = <<>> THEN <<>>
  ELSE LET init == uniqueNames(SubSeq(raws, 1, Len(raws) - 1))
       IN Append(init, uniqueName(raws[Len(raws)], Range(init)))

\* `rule:name_unique:<kind>:<prev>-><name>`, pushed when the name changed
RenameNote(kind, prev, name) ==
  IF prev # name THEN <<"rule:name_unique:" \o kind \o ":" \o prev \o "->" \o name>> ELSE <<>>

DefaultScreen ==
  [name |-> "Main", purpose |-> "Primary workflow screen",
   primary_actions |-> <<"Input", "Run", "Export">>]

\* the screens before renaming, and whether the default was used
MappedScreens(w) ==
  LET raw == IF "screens" \in DOMAIN w THEN w.screens ELSE <<>>
      mapped == [i \in 1..Len(raw) |->
        IF raw[i].t = "string"
          THEN [name |-> raw[i].s, purpose |-> raw[i].s, primary_actions |-> <<"Open", "Run">>]
          ELSE [name |-> asString(Opt(raw[i].o, "name"), "Screen " \o ToString(i)),
                purpose |-> asString(Opt(raw[i].o, "purpose"), "Main workflow screen"),
                primary_actions |-> IF "primary_actions" \in DOMAIN raw[i].o
                                      THEN raw[i].o.primary_actions ELSE <<"Open", "Run">>]]
  IN SelectSeq(mapped, LAMBDA s : s.name # "")

NormalizeScreens_SortFirst(w) ==
  LET mapped == MappedScreens(w)
      screens == SortByName(IF mapped = <<>> THEN <<DefaultScreen>> ELSE mapped)
      names == uniqueNames([i \in 1..Len(screens) |-> screens[i].name])
  IN [items |-> [i \in 1..Len(screens) |->
                   [name |-> names[i], purpose |-> screens[i].purpose,
                    primary_actions |-> SortStrings(DedupeFirst(screens[i].primary_actions))]],
      fixes |-> <<>>]

\* lines 290-326: the screens of the canonical document and the notes pushed
NormalizeScreens(w) ==
  LET mapped == MappedScreens(w)
      screens == IF mapped = <<>> THEN <<DefaultScreen>> ELSE mapped
      names == uniqueNames([i \in 1..Len(screens) |-> screens[i].name])
  IN [items |-> SortByName([i \in 1..Len(screens) |->
                   [name |-> names[i], purpose |-> screens[i].purpose,
                    primary_actions |-> SortStrings(DedupeFirst(screens[i].primary_actions))]]),
      fixes |-> (IF mapped = <<>> THEN <<"screens defaulted to single main screen">> ELSE <<>>)
                \o Flatten([i \in 1..Len(screens) |->
                     RenameNote("screens", screens[i].name, names[i])])]

IdColumn == [name |-> "id", type |-> "TEXT"]

DefaultTable ==
  [name |-> "records", columns |-> <<IdColumn, [name |-> "created_at", type |-> "TEXT"]>>]

MappedColumns(o) ==
  LET rawCols == IF "columns" \in DOMAIN o THEN o.columns
                 ELSE IF "fields" \in DOMAIN o THEN o.fields ELSE <<>>
      columns == SelectSeq([j \in 1..Len(rawCols) |->
                              [name |-> asString(Opt(rawCols[j], "name"), "field"),
                               type |-> normalizeColumnType(Opt(rawCols[j], "type"))]],
                           LAMBDA f : f.name # "" /\ f.type # "")
  IN IF columns # <<>> THEN columns ELSE <<IdColumn>>

MappedTables(w) ==
  LET raw == IF "data_model" \in DOMAIN w /\ "tables" \in DOMAIN w.data_model
             THEN w.data_model.tables ELSE <<>>
      mapped == [i \in 1..Len(raw) |->
        IF raw[i].t = "string"
          THEN [name |-> raw[i].s, columns |-> <<IdColumn>>]
          ELSE [name |-> asString(Opt(raw[i].o, "name"), "table_" \o ToString(i)),
                columns |-> MappedColumns(raw[i].o)]]
  IN SelectSeq(mapped, LAMBDA t : t.name # "")

\* the columns of one table after the inner loop and the sort
NormalizeColumns(columns) ==
  LET names == uniqueNames([j \in 1..Len(columns) |-> columns[j].name])
  IN SortByName([j \in 1..Len(columns) |->
       [name |-> names[j], type |-> normalizeColumnType(<<columns[j].type>>)]])

ColumnNotes(tableName, columns) ==
  LET names == uniqueNames([j \in 1..Len(columns) |-> columns[j].name])
  IN Flatten([j \in 1..Len(columns) |->
       IF columns[j].name # names[j]
         THEN <<"rule:name_unique:columns:" \o tableName \o "." \o columns[j].name
                  \o "->" \o names[j]>>
         ELSE <<>>])

\* lines 366-415: the tables of the canonical document and the notes pushed
NormalizeTables(w) ==
  LET Renamed(tables, names, defaulted) ==
        [items |-> SortByName([i \in 1..Len(tables) |->
                      [name |-> names[i], columns |-> NormalizeColumns(tables[i].columns)]]),
         fixes |-> defaulted
                   \o Flatten([i \in 1..Len(tables) |->
                        RenameNote("tables", tables[i].name, names[i])
                        \o ColumnNotes(names[i], tables[i].columns)])]
      Filled(tables, defaulted) ==
        Renamed(tables, uniqueNames([i \in 1..Len(tables) |-> tables[i].name]), defaulted)
      Mapped(mapped) ==
        IF mapped = <<>> THEN Filled(<<DefaultTable>>, <<"data_model.tables defaulted to records">>)
        ELSE Filled(mapped, <<>>)
  IN Mapped(MappedTables(w))

DefaultCommand ==
  [name |-> "run_main_flow", purpose |-> "Execute core flow", async |-> TRUE,
   input |-> Obj(EmptyMap), output |-> Obj(EmptyMap)]

\* lines 334-353: no command is filtered out, each has a name
MappedCommands(w) ==
  LET raw == IF "rust_commands" \in DOMAIN w THEN w.rust_commands ELSE <<>>
  IN [i \in 1..Len(raw) |->
        IF raw[i].t = "string"
          THEN [name |-> "cmd_" \o ToString(i), purpose |-> raw[i].s, async |-> TRUE,
                input |-> Obj(EmptyMap), output |-> Obj(EmptyMap)]
          ELSE [name |-> asString(Opt(raw[i].o, "name"), "cmd_" \o ToString(i)),
                purpose |-> asString(Opt(raw[i].o, "purpose"), "Execute core operation"),
                async |-> IF "async" \in DOMAIN raw[i].o THEN raw[i].o.async ELSE TRUE,
                input |-> Prop(raw[i].o, "input"),
                output |-> Prop(raw[i].o, "output")]]

\* lines 355-364 and 416-427: the commands of the canonical document and the
\* notes pushed; tables is the sorted table list
NormalizeCommands(w, tables) ==
  LET Validated(commands, names, validated, defaulted) ==
        [items |-> SortByName([i \in 1..Len(commands) |->
                      [name |-> names[i], purpose |-> commands[i].purpose,
                       async |-> commands[i].async,
                       input |-> validated[i].input, output |-> validated[i].output]]),
         defaulted |-> defaulted,
         fixes |-> Flatten([i \in 1..Len(commands) |->
                      validated[i].fixes
                      \o RenameNote("rust_commands", commands[i].name, names[i])])]
      Renamed(commands, names, defaulted) ==
        Validated(commands, names,
                  [i \in 1..Len(commands) |->
                     validateCommandIO([commands[i] EXCEPT !.name = names[i]], tables)],
                  defaulted)
      Filled(commands, defaulted) ==
        Renamed(commands, uniqueNames([i \in 1..Len(commands) |-> commands[i].name]),
                defaulted)
      Mapped(mapped) ==
        IF mapped = <<>>
          THEN Filled(<<DefaultCommand>>, <<"rust_commands defaulted to run_main_flow">>)
          ELSE Filled(mapped, <<>>)
  IN Mapped(MappedCommands(w))

\* a milestone's week is a number, [t |-> "number", v |-> integer], or a string,
\* [t |-> "string", n |-> Number(string)] with NaN given as <<>>, or absent
WeekOf(m, idx) ==
  IF "week" \notin DOMAIN m THEN idx
  ELSE IF m.week.t = "number" THEN Max(1, m.week.v)
  ELSE IF m.week.n # <<>> /\ m.week.n[1] # 0 THEN m.week.n[1]
  ELSE idx

\* lines 429-457
NormalizePlan(w) ==
  LET plan == IF "mvp_plan" \in DOMAIN w THEN w.mvp_plan ELSE Undefined
      fallback == <<"week 1: Implement MVP flow">>
  IN IF plan.t = "array"
       THEN LET xs == SelectSeq(plan.a, LAMBDA x : Len(trim(x)) > 0)
            IN SortStrings(IF xs # <<>> THEN xs ELSE fallback)
     ELSE
       LET source == IF plan.t = "object" /\ "milestones" \in DOMAIN plan.o
                     THEN plan.o.milestones ELSE <<>>
           milestones ==
             SelectSeq([i \in 1..Len(source) |->
                          [week |-> WeekOf(source[i], i),
                           tasks |-> IF "tasks" \in DOMAIN source[i]
                                     THEN source[i].tasks ELSE <<>>]],
                       LAMBDA m : Len(m.tasks) > 0)
           ms == IF milestones # <<>> THEN milestones
                 ELSE <<[week |-> 1, tasks |-> <<"Implement MVP flow">>]>>
           out == Flatten([i \in 1..Len(ms) |->
                    Flatten([j \in 1..Len(ms[i].tasks) |->
                      IF trim(ms[i].tasks[j]) = "" THEN <<>>
                      ELSE <<"week " \o ToString(ms[i].week) \o ": " \o trim(ms[i].tasks[j])>>])])
       IN SortStrings(IF out # <<>> THEN out ELSE fallback)

DefaultTest == "Given valid input, when run, then result is stored and displayed."

\* lines 459-470
NormalizeTests(w) ==
  LET raw == IF "acceptance_tests" \in DOMAIN w THEN w.acceptance_tests ELSE <<>>
      mapped == SelectSeq([i \in 1..Len(raw) |->
                             IF raw[i].t = "string" THEN raw[i].s
                             ELSE asString(Opt(raw[i].o, "test"), "")],
                          LAMBDA x : Len(x) > 0)
  IN [items |-> SortStrings(IF mapped = <<>> THEN <<DefaultTest>> ELSE mapped),
      fixes |-> IF mapped = <<>> THEN <<"acceptance_tests defaulted to one baseline test">>
                ELSE <<>>]

\* lines 281-288
NormalizeApp(w) ==
  LET app == IF "app" \in DOMAIN w THEN w.app ELSE EmptyMap
      oneLinerFromWire == IF "one_liner" \in DOMAIN app THEN <<app.one_liner>>
                          ELSE Opt(app, "one_sentence")
  IN [name |-> asString(Opt(app, "name"), "Untitled App"),
      one_liner |-> asString(oneLinerFromWire,
                             "A desktop app generated from repository evidence.")]

normalizeWireToCanonical(w) ==
  LET Document(screens, tables, commands, tests) ==
        [canonical |->
           [schema_version |-> 3,
            app |-> NormalizeApp(w),
            screens |-> screens.items,
            rust_commands |-> commands.items,
            data_model |-> [tables |-> tables.items],
            mvp_plan |-> NormalizePlan(w),
            acceptance_tests |-> tests.items],
         normalize_report |->
           [fixes |-> screens.fixes \o commands.defaulted \o tables.fixes \o commands.fixes
                      \o tests.fixes,
            warnings |-> <<>>]]
      WithTables(tables) ==
        Document(NormalizeScreens(w), tables, NormalizeCommands(w, tables.items),
                 NormalizeTests(w))
  IN WithTables(NormalizeTables(w))

\* `wire: canonical as any`: a canonical document read as a wire document
AsWire(c) ==
  [app |-> c.app,
   screens |-> [i \in 1..Len(c.screens) |-> Obj(c.screens[i])],
   rust_commands |-> [i \in 1..Len(c.rust_commands) |->
      Obj([c.rust_commands[i] EXCEPT
             !.input = Obj([k \in DOMAIN @ |-> Str(@[k])]),
             !.output = Obj([k \in DOMAIN @ |-> Str(@[k])])])],
   data_model |-> [tables |-> [i \in 1..Len(c.data_model.tables) |->
      Obj(c.data_model.tables[i])]],
   mvp_plan |-> Arr(c.mvp_plan),
   acceptance_tests |-> [i \in 1..Len(c.acceptance_tests) |-> Str(c.acceptance_tests[i])]]

----------------------------------------------------------------------------
(* The wire documents the normalizer is run on.                            *)

\* all sequences over S of length 0..n
SeqsOver(S, n) == UNION {[1..k -> S] : k \in 0..n}

\* the document of the rule tests, on which every family varies one section
BaseWire ==
  [app |-> [name |-> "A", one_liner |-> "B"],
   screens |-> <<Obj([name |-> "Main", purpose |-> "p", primary_actions |-> <<"run">>])>>,
   rust_commands |-> <<Obj([name |-> "cmd", purpose |-> "p", async |-> TRUE,
                            input |-> Obj([a |-> Num(1)]), output |-> Obj([b |-> Num(2)])])>>,
   data_model |-> [tables |-> <<Obj([name |-> "t",
                                     columns |-> <<[name |-> "id", type |-> "int"]>>])>>],
   mvp_plan |-> Arr(<<"task">>),
   acceptance_tests |-> <<Str("ok")>>]

\* names of items: plain, already suffixed, padded, blank
ItemNames == {"a", "a_2", " a", "b", "  "}
\* <<>> is an item without a name
OptItemNames == {<<n>> : n \in ItemNames} \cup {<<>>}

\* the i-th item carries the tag "p<i>", so that it can be found in the output
Tag(i) == "p" \o ToString(i)

Named(name, rest) == IF name = <<>> THEN rest ELSE [name |-> name[1]] @@ rest

ScreenSeqs ==
  {[i \in 1..Len(ns) |-> Obj(Named(ns[i], [purpose |-> Tag(i)]))] :
     ns \in SeqsOver(OptItemNames, MaxItems)}

ScreenExtras ==
  {<<Str("a"), Str("a")>>, <<Str("")>>, <<Str("  ")>>, <<Str("b"), Str(""), Str("a")>>,
   <<Obj([name |-> "a", primary_actions |-> <<"">>])>>,
   <<Obj([name |-> "z", primary_actions |-> <<"run", "open", "run">>]),
     Obj([name |-> "a", purpose |-> "  ", primary_actions |-> <<"submit", "analyze">>])>>}

CommandSeqs ==
  {[i \in 1..Len(ns) |-> Obj(Named(ns[i], [purpose |-> Tag(i)]))] :
     ns \in SeqsOver(OptItemNames, MaxItems)}

CommandExtras ==
  {<<Str("do"), Str("do")>>, <<Str("")>>, <<Str("  ")>>,
   <<Obj([name |-> "cmd_2"]), Str("save")>>,
   <<Obj([name |-> "a", purpose |-> " ", async |-> FALSE])>>}

\* the i-th table is tagged by the name of its only column
TableSeqs ==
  {[i \in 1..Len(ns) |->
      Obj(Named(ns[i], [fields |-> <<[name |-> Tag(i), type |-> "text"]>>]))] :
     ns \in SeqsOver(OptItemNames, MaxItems)}

TableExtras ==
  {<<Str("b"), Str("a"), Str("a")>>, <<Str("")>>, <<Str("  ")>>,
   <<Obj([name |-> "t"])>>, <<Obj([name |-> "t", columns |-> <<>>])>>,
   <<Obj([name |-> "t", fields |-> <<[name |-> "f", type |-> "int"]>>,
          columns |-> <<[name |-> "c", type |-> "bool"]>>])>>}

\* the i-th column is tagged by its type
TagTypes == <<"int", "float", "bool", "blob">>
ColumnSeqs ==
  {[i \in 1..Len(ns) |-> Named(ns[i], [type |-> TagTypes[i]])] :
     ns \in SeqsOver(OptItemNames, MaxItems)}

\* what a model writes as a command's input or output
IoValues ==
  {Undefined, Null, Str(""), Arr(<<>>), Obj(EmptyMap),
   Obj([request |-> Obj([file_path |-> Str(""), valid |-> Bool(FALSE)])]),
   Obj([request |-> Obj(EmptyMap)]),
   Obj([request |-> Str("x")]),
   Obj([request |-> Obj([todo |-> Num(1)]), x |-> Arr(<<>>)]),
   Obj([placeholder |-> Bool(TRUE)]),
   Obj([TODO |-> Str("later"), Mock |-> Null]),
   Obj([a |-> Num(1), b |-> Float(1), c |-> Str("Integer"), d |-> Str(" string? "),
        e |-> Null, tbd |-> Str("x")]),
   Obj(("  " :> Str("x")) @@ [result |-> Obj(EmptyMap), count |-> Num(1)])}

IoCommandNames == {"save", "lint_a", "apply_a", "fix_a", "connect_save", "list_a", "run"}

\* the columns of the first table, from which an empty input is filled
IoTableColumns ==
  {<<[name |-> "id", type |-> "TEXT"]>>,
   <<[name |-> "id", type |-> "text"], [name |-> "title", type |-> "text"]>>,
   <<[name |-> "todo", type |-> "int"], [name |-> "Mock", type |-> "bool"]>>,
   <<[name |-> "request", type |-> "date"]>>,
   <<[name |-> "n", type |-> "blob"], [name |-> "placeholder", type |-> "text"]>>}

\* the two sides are normalized independently of each other: every value on
\* both sides, and on each side beside a missing and a well-formed other side
IoPairs ==
  {<<x, x>> : x \in IoValues}
  \cup {<<x, y>> : x \in {Undefined, Obj([n |-> Num(1)])}, y \in IoValues}
  \cup {<<x, y>> : x \in IoValues, y \in {Undefined, Obj([ok |-> Bool(TRUE)])}}

IoWires ==
  {[BaseWire EXCEPT
      !.rust_commands = <<Obj([name |-> n, purpose |-> "p", input |-> io[1], output |-> io[2]])>>,
      !.data_model.tables = <<Obj([name |-> "t", columns |-> cols])>>] :
     n \in IoCommandNames, io \in IoPairs, cols \in IoTableColumns}

\* raw column types: every synonym, as written, in upper case and padded, and
\* types outside the synonym table
Synonyms ==
  IntegerSynonyms \cup RealSynonyms \cup BooleanSynonyms \cup BlobSynonyms
  \cup JsonSynonyms \cup DatetimeSynonyms \cup TextSynonyms

toUpperChar(c) == IF IndexIn(c, Lowers) > 0 THEN CharAt(Uppers, IndexIn(c, Lowers)) ELSE c
RECURSIVE toUpperCase(_)
toUpperCase(s) == IF s = "" THEN "" ELSE toUpperChar(CharAt(s, 1)) \o toUpperCase(Rest(s))

OtherTypes ==
  {"uuid", "int?", "text?", "json?", "array<int>", "array<int>?", "Array<Map>", "?", "",
   "  ", "in t", "strings"}

RawTypes ==
  Synonyms \cup {toUpperCase(t) : t \in Synonyms} \cup {" " \o t \o "  " : t \in Synonyms}
  \cup OtherTypes

\* <<>>: the column has no type, or one that is not a string
OptRawTypes == {<<t>> : t \in RawTypes} \cup {<<>>}

TypeWires ==
  {[BaseWire EXCEPT !.data_model.tables =
      <<Obj([name |-> "t",
             columns |-> <<IF t = <<>> THEN [name |-> "c"] ELSE [name |-> "c", type |-> t[1]]>>])>>] :
     t \in OptRawTypes}

PlanStrings == {"week 2: b", "week 1: a", " ", ""}
Weeks == {[t |-> "number", v |-> 0], [t |-> "number", v |-> 2], [t |-> "string", n |-> <<3>>],
          [t |-> "string", n |-> <<0>>], [t |-> "string", n |-> <<>>]}
Milestones ==
  {[tasks |-> ts] : ts \in {<<>>, <<"b", " a ">>, <<" ">>}}
  \cup {[week |-> w, tasks |-> <<"t">>] : w \in Weeks}
  \cup {[week |-> [t |-> "number", v |-> 2]]}
Plans ==
  {Arr(xs) : xs \in SeqsOver(PlanStrings, MaxItems)}
  \cup {Obj([milestones |-> ms]) : ms \in SeqsOver(Milestones, MaxPlanLen)}
  \cup {Obj(EmptyMap)}

TestItems ==
  {Str("z test"), Str("a test"), Str(""), Str(" "), Obj([test |-> "b test"]), Obj(EmptyMap),
   Obj([test |-> " "])}

Apps ==
  {[name |-> "A", one_liner |-> "B"], [name |-> " ", one_sentence |-> "S"],
   [one_liner |-> "", one_sentence |-> "S"], [name |-> " A ", one_liner |-> " B"], EmptyMap}

SectionWires ==
  {[BaseWire EXCEPT !.screens = x] : x \in ScreenSeqs \cup ScreenExtras}
  \cup {[BaseWire EXCEPT !.rust_commands = x] : x \in CommandSeqs \cup CommandExtras}
  \cup {[BaseWire EXCEPT !.data_model.tables = x] : x \in TableSeqs \cup TableExtras}
  \cup {[BaseWire EXCEPT !.data_model.tables = <<Obj([name |-> "t", columns |-> x])>>] :
          x \in ColumnSeqs}
  \cup {[BaseWire EXCEPT !.mvp_plan = x] : x \in Plans}
  \cup {[BaseWire EXCEPT !.acceptance_tests = x] : x \in SeqsOver(TestItems, MaxItems)}
  \cup {[BaseWire EXCEPT !.app = x] : x \in Apps}

\* documents with sections missing
PartialWires ==
  {EmptyMap, [app |-> [name |-> "A"]], [data_model |-> EmptyMap],
   [k \in {"screens", "rust_commands", "acceptance_tests"} |-> <<>>],
   [app |-> [name |-> "A"],
    rust_commands |-> <<Obj([name |-> "save", input |-> Null, output |-> Obj(EmptyMap)])>>]}

NormalizerWires == SectionWires \cup IoWires \cup TypeWires \cup PartialWires

----------------------------------------------------------------------------
(* normalizeWireToCanonical on its own: one call on every wire document,   *)
(* then a second call on the canonical document the first returned.        *)

NormalizeInit ==
  /\ wire \in NormalizerWires
  /\ normalized = NoDoc
  /\ renormalized = NoDoc
  /\ IdleBridge /\ IdlePatch /\ IdleV3 /\ IdleGates /\ IdleSchema /\ IdleExtra

NormalizeWire ==
  /\ normalized = NoDoc
  /\ normalized' = normalizeWireToCanonical(wire)
  /\ UNCHANGED <<wire, renormalized, bridgeVars, patchVars, v3Vars, gateVars, schemaVars, extraVars>>

NormalizeAgain ==
  /\ normalized # NoDoc /\ renormalized = NoDoc
  /\ renormalized' = normalizeWireToCanonical(AsWire(normalized.canonical))
  /\ UNCHANGED <<wire, normalized, bridgeVars, patchVars, v3Vars, gateVars, schemaVars, extraVars>>

NormalizeNext == NormalizeWire \/ NormalizeAgain

NormalizeSpec == NormalizeInit /\ [][NormalizeNext]_vars

----------------------------------------------------------------------------
(* The schema-v3 CanonicalSpecSchema (scripts/bridge/canonicalSchemas.ts), *)
(* on JSON values.                                                         *)

\* z.string().min(1)
ZStringMin1(x) == x.t = "string" /\ Len(x.s) >= 1

\* z.object({...}): an object that has every key, each accepted by its schema
ZHas(x, keys) == x.t = "object" /\ keys \subseteq DOMAIN x.o

\* z.array(schema)
ZArray(x, Schema(_)) == x.t = "array" /\ \A i \in 1..Len(x.a) : Schema(x.a[i])

CommandIOTypeSchema(x) == x.t = "string" /\ IO_TYPE_REGEX(x.s)

CommandIOSchema(x) ==
  /\ x.t = "object"
  /\ \A k \in DOMAIN x.o : CommandIOTypeSchema(x.o[k])
  /\ DOMAIN x.o # {}

ScreenSchema3(x) ==
  /\ ZHas(x, {"name", "purpose", "primary_actions"})
  /\ ZStringMin1(x.o.name)
  /\ ZStringMin1(x.o.purpose)
  /\ ZArray(x.o.primary_actions, ZStringMin1)

CommandSchema3(x) ==
  /\ ZHas(x, {"name", "purpose", "async", "input", "output"})
  /\ ZStringMin1(x.o.name)
  /\ ZStringMin1(x.o.purpose)
  /\ x.o.async.t = "boolean"
  /\ CommandIOSchema(x.o.input)
  /\ CommandIOSchema(x.o.output)

ColumnSchema3(x) ==
  /\ ZHas(x, {"name", "type"})
  /\ ZStringMin1(x.o.name)
  /\ ZStringMin1(x.o.type)

TableSchema3(x) ==
  /\ ZHas(x, {"name", "columns"})
  /\ ZStringMin1(x.o.name)
  /\ ZArray(x.o.columns, ColumnSchema3)

\* CanonicalSpecSchema.parse(x) does not throw
CanonicalSpecSchema(x) ==
  /\ ZHas(x, {"schema_version", "app", "screens", "rust_commands", "data_model",
              "mvp_plan", "acceptance_tests"})
  /\ x.o.schema_version.t = "number" /\ x.o.schema_version.v = 3
  /\ ZHas(x.o.app, {"name", "one_liner"})
  /\ ZStringMin1(x.o.app.o.name)
  /\ ZStringMin1(x.o.app.o.one_liner)
  /\ ZArray(x.o.screens, ScreenSchema3)
  /\ ZArray(x.o.rust_commands, CommandSchema3)
  /\ ZHas(x.o.data_model, {"tables"})
  /\ ZArray(x.o.data_model.o.tables, TableSchema3)
  /\ ZArray(x.o.mvp_plan, ZStringMin1)
  /\ ZArray(x.o.acceptance_tests, LAMBDA t : t.t = "string")

StrArr(xs) == Arr([i \in 1..Len(xs) |-> Str(xs[i])])
StrDict(d) == Obj([k \in DOMAIN d |-> Str(d[k])])

\* the JSON value of a document built by normalizeWireToCanonical
ToJson(c) ==
  Obj([schema_version |-> Num(c.schema_version),
       app |-> Obj([name |-> Str(c.app.name), one_liner |-> Str(c.app.one_liner)]),
       screens |-> Arr([i \in 1..Len(c.screens) |->
          Obj([name |-> Str(c.screens[i].name), purpose |-> Str(c.screens[i].purpose),
               primary_actions |-> StrArr(c.screens[i].primary_actions)])]),
       rust_commands |-> Arr([i \in 1..Len(c.rust_commands) |->
          Obj([name |-> Str(c.rust_commands[i].name),
               purpose |-> Str(c.rust_commands[i].purpose),
               async |-> Bool(c.rust_commands[i].async),
               input |-> StrDict(c.rust_commands[i].input),
               output |-> StrDict(c.rust_commands[i].output)])]),
       data_model |-> Obj([tables |-> Arr([i \in 1..Len(c.data_model.tables) |->
          Obj([name |-> Str(c.data_model.tables[i].name),
               columns |-> Arr([j \in 1..Len(c.data_model.tables[i].columns) |->
                  Obj([name |-> Str(c.data_model.tables[i].columns[j].name),
                       type |-> Str(c.data_model.tables[i].columns[j].type)])])])])]),
       mvp_plan |-> StrArr(c.mvp_plan),
       acceptance_tests |-> StrArr(c.acceptance_tests)])

----------------------------------------------------------------------------
(* CanonicalSpecSchema on its own: one parse of every candidate document.  *)

\* the value at a path; an array is entered at its first element (step "0")
RECURSIVE ValueAt(_, _)
ValueAt(x, path) ==
  IF path = <<>> THEN x
  ELSE IF x.t = "array" THEN ValueAt(x.a[1], Tail(path))
  ELSE ValueAt(x.o[path[1]], Tail(path))

\* x with the value at path replaced by y[1], or the property removed when
\* y = <<>>
RECURSIVE ReplaceAt(_, _, _)
ReplaceAt(x, path, y) ==
  IF path = <<>> THEN y[1]
  ELSE IF x.t = "array" THEN Arr([x.a EXCEPT ![1] = ReplaceAt(@, Tail(path), y)])
  ELSE IF Len(path) = 1 /\ y = <<>> THEN Obj(Without(x.o, {path[1]}))
  ELSE Obj([x.o EXCEPT ![path[1]] = ReplaceAt(@, Tail(path), y)])

\* a document the schema accepts: the normalized document of the rule tests
GoodJson == ToJson(normalizeWireToCanonical(BaseWire).canonical)

PropertyPaths ==
  {<<"schema_version">>, <<"app">>, <<"app", "name">>, <<"app", "one_liner">>,
   <<"screens">>, <<"screens", "0", "name">>, <<"screens", "0", "purpose">>,
   <<"screens", "0", "primary_actions">>,
   <<"rust_commands">>, <<"rust_commands", "0", "name">>, <<"rust_commands", "0", "purpose">>,
   <<"rust_commands", "0", "async">>, <<"rust_commands", "0", "input">>,
   <<"rust_commands", "0", "output">>,
   <<"data_model">>, <<"data_model", "tables">>, <<"data_model", "tables", "0", "name">>,
   <<"data_model", "tables", "0", "columns">>,
   <<"data_model", "tables", "0", "columns", "0", "name">>,
   <<"data_model", "tables", "0", "columns", "0", "type">>,
   <<"mvp_plan">>, <<"acceptance_tests">>}

IoValuePaths == {<<"rust_commands", "0", "input", "a">>, <<"rust_commands", "0", "output", "b">>}
ColumnTypePath == <<"data_model", "tables", "0", "columns", "0", "type">>

ElementPaths ==
  {<<"screens", "0">>, <<"screens", "0", "primary_actions", "0">>, <<"rust_commands", "0">>,
   <<"data_model", "tables", "0">>, <<"data_model", "tables", "0", "columns", "0">>,
   <<"mvp_plan", "0">>, <<"acceptance_tests", "0">>}

OneOfEachType == {Null, Num(3), Str("x"), Bool(TRUE), Arr(<<>>), Obj(EmptyMap)}

\* candidate documents, each with the kind of its defect
SchemaCases ==
  LET CasesOf(good) ==
        {[kind |-> "good", json |-> good]}
        \cup {[kind |-> "missing", json |-> ReplaceAt(good, p, <<>>)] : p \in PropertyPaths}
        \cup UNION {{[kind |-> "wrong_type", json |-> ReplaceAt(good, p, <<y>>)] :
                        y \in {z \in OneOfEachType : z.t # ValueAt(good, p).t}} :
                      p \in PropertyPaths \cup ElementPaths \cup IoValuePaths}
        \cup {[kind |-> "io_type", json |-> ReplaceAt(good, p, <<Str(s)>>)] :
                p \in IoValuePaths, s \in {"integer", "String", "string??", "", "?", "text"}}
        \cup {[kind |-> "good", json |-> ReplaceAt(good, p, <<Str(s)>>)] :
                p \in IoValuePaths, s \in {"int?", "json", "timestamp?"}}
        \cup {[kind |-> "column_type", json |-> ReplaceAt(good, ColumnTypePath, <<Str(s)>>)] :
                s \in {"VARCHAR", "text", "int", "TEXT?", "x"}}
        \cup {[kind |-> "good", json |-> ReplaceAt(good, ColumnTypePath, <<Str(s)>>)] :
                s \in ColumnTypes}
  IN CasesOf(GoodJson)

SchemaInit ==
  /\ sdoc \in SchemaCases
  /\ sout = NoDoc
  /\ IdleBridge /\ IdlePatch /\ IdleNormalize /\ IdleV3 /\ IdleGates /\ IdleExtra

ParseCanonical ==
  /\ sout = NoDoc
  /\ sout' = [accepted |-> CanonicalSpecSchema(sdoc.json)]
  /\ UNCHANGED <<sdoc, bridgeVars, patchVars, normVars, v3Vars, gateVars, extraVars>>

SchemaNext == ParseCanonical

SchemaSpec == SchemaInit /\ [][SchemaNext]_vars

----------------------------------------------------------------------------
(* The schema-v3 runBridge: parse, wire_validate, normalize,               *)
(* canonical_validate; no gates, no cover, no repair.                      *)

Keep(f, keys) == [k \in (DOMAIN f) \cap keys |-> f[k]]

\* z.array(z.union([z.string(), z.object({keys...})])): unknown keys are stripped
StripItems(items, keys) ==
  [i \in 1..Len(items) |->
     IF items[i].t = "object" THEN Obj(Keep(items[i].o, keys)) ELSE items[i]]

StripTable(o) ==
  LET kept == Keep(o, {"name", "fields", "indexes"})
  IN IF "fields" \in DOMAIN kept
       THEN [kept EXCEPT !.fields = [j \in 1..Len(@) |-> Keep(@[j], {"name", "type", "notes"})]]
       ELSE kept

\* whether WireSpecSchema.parse(raw) returns; the fields of the documents of the
\* model hold values of the declared types, but for mvp_plan and the document
\* itself
WireSpecSchemaAccepts(raw) ==
  /\ raw.t = "object"
  /\ "mvp_plan" \in DOMAIN raw.o => raw.o.mvp_plan.t = "object"

\* what WireSpecSchema.parse returns: the top level passes unknown keys
\* through, the objects below it drop them
WireSpecSchemaParse(w) ==
  [k \in DOMAIN w |->
     IF k = "app" THEN Keep(w[k], {"name", "one_sentence", "inspired_by"})
     ELSE IF k = "screens" THEN StripItems(w[k], {"id", "name", "purpose", "primary_actions"})
     ELSE IF k = "rust_commands"
       THEN StripItems(w[k], {"name", "purpose", "async", "input", "output"})
     ELSE IF k = "data_model"
       THEN [d \in (DOMAIN w[k]) \cap {"tables"} |->
               [i \in 1..Len(w[k][d]) |->
                  IF w[k][d][i].t = "object" THEN Obj(StripTable(w[k][d][i].o))
                  ELSE w[k][d][i]]]
     ELSE IF k = "mvp_plan"
       THEN Obj([m \in (DOMAIN w[k].o) \cap {"milestones"} |->
                   [i \in 1..Len(w[k].o[m]) |-> Keep(w[k].o[m][i], {"week", "tasks"})]])
     ELSE IF k = "acceptance_tests" THEN StripItems(w[k], {"test"})
     ELSE w[k]]

\* a raw text that holds no JSON
NoJson == [t |-> "text"]

\* the document of runBridge.test.ts
TestWire ==
  [app |-> [name |-> "Demo App", one_sentence |-> "Demo"],
   core_loop |-> "Input -> process -> SQLite -> display",
   screens |-> <<Obj([id |-> "main", name |-> "Main", purpose |-> "P",
                      primary_actions |-> <<"Run">>])>>,
   rust_commands |-> <<Obj([name |-> "save_item", purpose |-> "Save", async |-> TRUE,
                            input |-> Obj(EmptyMap), output |-> Obj(EmptyMap)])>>,
   data_model |-> [tables |-> <<Obj([name |-> "items",
                                     fields |-> <<[name |-> "id", type |-> "TEXT"]>>])>>],
   mvp_plan |-> Obj([milestones |-> <<[week |-> [t |-> "number", v |-> 1],
                                       tasks |-> <<"Task">>]>>]),
   acceptance_tests |-> <<Str("it works")>>]

V3Wires ==
  {TestWire}
  \cup {[TestWire EXCEPT !.screens = x] : x \in ScreenExtras \cup SeqsOver({Str("a"), Str(" ")}, 2)}
  \cup {[TestWire EXCEPT !.rust_commands = x] :
          x \in CommandExtras \cup CommandSeqs}
  \cup {[TestWire EXCEPT !.data_model.tables = x] : x \in TableExtras}
  \cup {[TestWire EXCEPT !.mvp_plan = x] : x \in Plans}
  \cup {[TestWire EXCEPT !.acceptance_tests = x] : x \in SeqsOver(TestItems, 2)}
  \cup {[TestWire EXCEPT !.app = x] : x \in Apps}
  \cup PartialWires

V3Raws == {NoJson, Arr(<<>>)} \cup {Obj(w) : w \in V3Wires}

V3Init ==
  /\ v3raw \in V3Raws
  /\ v3pc = "parse"
  /\ v3wire = NoDoc
  /\ v3normalized = NoDoc
  /\ v3stages = <<>>
  /\ v3final = [ok |-> FALSE, attempts_used |-> 0]
  /\ v3result = NoDoc
  /\ IdleBridge /\ IdlePatch /\ IdleNormalize /\ IdleGates /\ IdleSchema /\ IdleExtra

V3Others == <<bridgeVars, patchVars, normVars, gateVars, schemaVars, extraVars>>

V3ParseFail ==
  /\ v3pc = "parse" /\ v3raw = NoJson
  /\ v3stages' = Append(v3stages, Stage("parse", FALSE, "PARSE_FAILED", "error", [attempt |-> 0]))
  /\ v3final' = EarlyFinal("parse failed")
  /\ v3result' = ReturnFailure
  /\ v3pc' = "done"
  /\ UNCHANGED <<v3raw, v3wire, v3normalized, V3Others>>

V3ParseOk ==
  /\ v3pc = "parse" /\ v3raw # NoJson
  /\ v3stages' = Append(v3stages, Stage("parse", TRUE, NoCode, "", [attempt |-> 0]))
  /\ v3pc' = "wire_validate"
  /\ UNCHANGED <<v3raw, v3wire, v3normalized, v3final, v3result, V3Others>>

V3WireValidateFail ==
  /\ v3pc = "wire_validate" /\ ~WireSpecSchemaAccepts(v3raw)
  /\ v3stages' = Append(v3stages,
       Stage("wire_validate", FALSE, "WIRE_VALIDATE_FAILED", "error", [attempt |-> 0]))
  /\ v3final' = EarlyFinal("wire validation failed")
  /\ v3result' = ReturnFailure
  /\ v3pc' = "done"
  /\ UNCHANGED <<v3raw, v3wire, v3normalized, V3Others>>

V3WireValidateOk ==
  /\ v3pc = "wire_validate" /\ WireSpecSchemaAccepts(v3raw)
  /\ v3wire' = WireSpecSchemaParse(v3raw.o)
  /\ v3stages' = Append(v3stages, Stage("wire_validate", TRUE, NoCode, "", [attempt |-> 0]))
  /\ v3pc' = "normalize"
  /\ UNCHANGED <<v3raw, v3normalized, v3final, v3result, V3Others>>

V3Normalize ==
  /\ v3pc = "normalize"
  /\ v3normalized' = normalizeWireToCanonical(v3wire)
  /\ v3stages' = Append(v3stages,
       Stage("normalize", TRUE, NoCode, "",
             [fixes |-> Len(v3normalized'.normalize_report.fixes),
              warnings |-> Len(v3normalized'.normalize_report.warnings)]))
  /\ v3pc' = "canonical_validate"
  /\ UNCHANGED <<v3raw, v3wire, v3final, v3result, V3Others>>

V3CanonicalValidateFail ==
  /\ v3pc = "canonical_validate" /\ ~CanonicalSpecSchema(ToJson(v3normalized.canonical))
  /\ v3stages' = Append(v3stages,
       Stage("canonical_validate", FALSE, "CANONICAL_VALIDATE_FAILED", "error", [attempt |-> 0]))
  /\ v3final' = EarlyFinal("canonical validation failed")
  /\ v3result' = ReturnFailure
  /\ v3pc' = "done"
  /\ UNCHANGED <<v3raw, v3wire, v3normalized, V3Others>>

\* lines 106 and 119-120: the parsed document is returned, no stage is pushed
V3CanonicalValidateOk ==
  /\ v3pc = "canonical_validate" /\ CanonicalSpecSchema(ToJson(v3normalized.canonical))
  /\ v3final' = [ok |-> TRUE, attempts_used |-> 0]
  /\ v3result' = [ok |-> TRUE, canonical |-> v3normalized.canonical]
  /\ v3pc' = "done"
  /\ UNCHANGED <<v3raw, v3wire, v3normalized, v3stages, V3Others>>

V3Next ==
  \/ V3ParseFail \/ V3ParseOk
  \/ V3WireValidateFail \/ V3WireValidateOk
  \/ V3Normalize
  \/ V3CanonicalValidateFail \/ V3CanonicalValidateOk

V3Spec == V3Init /\ [][V3Next]_vars

----------------------------------------------------------------------------
(* The two gates on their own: one call of evidenceGate on every document  *)
(* and allow-list, one call of qualityGate on every document and config.   *)

\* the id lists a citation key can hold when a gate is called directly:
\* unsorted, with repeated ids
GateLists == SeqsUpTo(Ids, MaxGateLen)

\* the documents evidenceGate is called on: any list at up to MaxGatePlaces places
GatePlaceSets == {H \in SUBSET Places : Cardinality(H) <= MaxGatePlaces}
IsEvidenceDoc(doc) ==
  \E G \in GatePlaceSets : \E f \in [G -> GateLists] : doc = SetPlaces(BaseDoc, G, f)

\* allowedEvidenceIds: string[], in any order, with repeated ids
GateAllowLists == SeqsUpTo(Ids, MaxGateLen)

\* documents with no acceptance test, with a second command that has no
\* citation key, and with a second acceptance test
NoTestsDoc ==
  [BaseDoc EXCEPT !.acceptance_tests = <<>>, !.citations.acceptance_tests = EmptyMap]
TwoCommandsDoc ==
  [BaseDoc EXCEPT !.rust_commands = <<CommandOf("save"), CommandOf("load")>>]
TwoTestsDoc ==
  [BaseDoc EXCEPT !.acceptance_tests = <<"test1", "test2">>,
                  !.citations.acceptance_tests = Put(@, "1", <<2, 2>>)]
QualityBases == {BaseDoc, NoTestsDoc, TwoCommandsDoc, TwoTestsDoc}

\* the places of the keys qualityGate checks in doc
RequiredPlaces(doc) ==
  {<<"app">>, <<"core_loop">>}
    \cup UNION {{<<sec, EntityKeys(doc, sec)[i]>> : i \in 1..Len(EntityKeys(doc, sec))} :
                  sec \in SectionSet}

\* the documents qualityGate is called on: any of the required keys, and the
\* key that matches no entity, may hold an empty list
QualityDocs ==
  UNION {{SetPlaces(b, G, [pl \in G |-> <<>>]) :
            G \in SUBSET (RequiredPlaces(b) \cup {<<"screens", OrphanName>>})} :
           b \in QualityBases}

\* minCoverageRatio, in units of 1/RatioScale
Thresholds == {0, RatioScale \div 2, (2 * RatioScale) \div 3 + 1, (4 * RatioScale) \div 5, RatioScale}
GateConfigs == [requireNonEmpty : BOOLEAN, minCoverageRatio : Thresholds]

GateInit ==
  /\ \/ IsEvidenceDoc(gdoc) /\ gallowed \in GateAllowLists /\ gconfig = NoDoc
     \/ gdoc \in QualityDocs /\ gallowed = <<>> /\ gconfig \in GateConfigs
  /\ gout = NoDoc
  /\ IdleBridge /\ IdlePatch /\ IdleNormalize /\ IdleV3 /\ IdleSchema /\ IdleExtra

\* evidenceGate(canonical, allowedEvidenceIds): the gate assigns to neither argument
CallEvidenceGate ==
  /\ gout = NoDoc /\ gconfig = NoDoc
  /\ gout' = [gate |-> "evidence", result |-> evidenceGate(gdoc, gallowed),
              canonical |-> gdoc, allowedEvidenceIds |-> gallowed]
  /\ UNCHANGED <<gdoc, gallowed, gconfig, bridgeVars, patchVars, normVars, v3Vars, schemaVars, extraVars>>

\* qualityGate(canonical, config)
CallQualityGate ==
  /\ gout = NoDoc /\ gconfig # NoDoc
  /\ gout' = [gate |-> "quality", result |-> qualityGate(gdoc, gconfig),
              canonical |-> gdoc, config |-> gconfig]
  /\ UNCHANGED <<gdoc, gallowed, gconfig, bridgeVars, patchVars, normVars, v3Vars, schemaVars, extraVars>>

GateNext == CallEvidenceGate \/ CallQualityGate

GateSpec == GateInit /\ [][GateNext]_vars

----------------------------------------------------------------------------
(* classifyFailure (scripts/failures.ts). An optional argument is NoParam  *)
(* when absent or null, <<v>> when present.                                *)

FailKinds ==
  {"FETCH_FAILED", "EVIDENCE_INSUFFICIENT", "BRIDGE_WIRE_INVALID", "BRIDGE_CANONICAL_INVALID",
   "EVIDENCE_GATE_UNKNOWN_ID", "QUALITY_GATE_EMPTY_CITATIONS", "QUALITY_GATE_LOW_COVERAGE",
   "REPAIR_EXHAUSTED", "BUDGET_CUTOFF", "UNKNOWN"}

\* x ?? d
OrElse(x, d) == IF x = NoParam THEN d ELSE x[1]

\* report?.stages.some((s) => s.name === name && !s.ok)
StageFailed(report, name) ==
  /\ report # NoParam
  /\ \E i \in 1..Len(report[1].stages) :
       report[1].stages[i].name = name /\ ~report[1].stages[i].ok

\* report?.stages.filter((s) => s.name === "repair").length ?? 0
RepairAttempts(report) ==
  IF report = NoParam THEN 0
  ELSE Cardinality({i \in 1..Len(report[1].stages) : report[1].stages[i].name = "repair"})

\* report?.final[field] is a number greater than 0
FinalCountPositive(report, field) ==
  report # NoParam /\ report[1].final[field] # NoParam /\ report[1].final[field][1] > 0

\* report?.final.ok === false
FinalNotOk(report) == report # NoParam /\ ~report[1].final.ok

\* mutant: the content diagnoses are tried before the fetch flag
classifyFailure_ContentFirst(args) ==
  LET error == toLowerCase(OrElse(args.error, ""))
      report == args.report
  IN CASE args.budgetCutoff = <<TRUE>> ->
            [kind |-> "BUDGET_CUTOFF", message |-> "Stopped by budget policy.",
             hints |-> <<"Increase budget limits or reduce max repos per run">>]
       [] FinalCountPositive(report, "unknown_ids_count") ->
            [kind |-> "EVIDENCE_GATE_UNKNOWN_ID", message |-> "Unknown evidence ids in citations.",
             hints |-> <<"Ensure citations ids are copied from allowedEvidenceIds only">>]
       [] args.isFetchError = <<TRUE>> \/ includes(error, "github api") \/ includes(error, "fetch") ->
            [kind |-> "FETCH_FAILED", message |-> OrElse(args.error, "Fetch failed"),
             hints |-> <<"Check GITHUB_TOKEN scopes", "Check API rate limit", "Retry later">>]
       [] OTHER ->
            [kind |-> "UNKNOWN", message |-> OrElse(args.error, "Unknown failure"),
             hints |-> <<"Inspect report artifact and llm_audits for details">>]

classifyFailure(args) ==
  LET error == toLowerCase(OrElse(args.error, ""))
      report == args.report
  IN IF args.budgetCutoff = <<TRUE>> THEN
       [kind |-> "BUDGET_CUTOFF", message |-> "Stopped by budget policy.",
        hints |-> <<"Increase budget limits or reduce max repos per run">>]
     ELSE IF args.isFetchError = <<TRUE>> \/ includes(error, "github api")
               \/ includes(error, "fetch") THEN
       [kind |-> "FETCH_FAILED", message |-> OrElse(args.error, "Fetch failed"),
        hints |-> <<"Check GITHUB_TOKEN scopes", "Check API rate limit", "Retry later">>]
     ELSE IF FinalCountPositive(report, "unknown_ids_count") THEN
       [kind |-> "EVIDENCE_GATE_UNKNOWN_ID", message |-> "Unknown evidence ids in citations.",
        hints |-> <<"Ensure citations ids are copied from allowedEvidenceIds only">>]
     ELSE IF FinalCountPositive(report, "empty_fields_count") THEN
       [kind |-> "QUALITY_GATE_EMPTY_CITATIONS",
        message |-> "Some required citation fields are empty.",
        hints |-> <<"Improve synthesizer citations prompt", "Add citationHints",
                    "Check evidence lines formatting">>]
     ELSE IF report # NoParam /\ report[1].final.coverage_ratio # NoParam
               /\ report[1].final.coverage_ratio[1] < RatioScale THEN
       [kind |-> "QUALITY_GATE_LOW_COVERAGE",
        message |-> "Coverage ratio below required threshold.",
        hints |-> <<"Increase citation coverage and keep all key fields non-empty">>]
     ELSE IF StageFailed(report, "wire_validate") \/ includes(error, "wire validation") THEN
       [kind |-> "BRIDGE_WIRE_INVALID", message |-> "Wire schema validation failed.",
        hints |-> <<"Constrain synthesizer output shape more tightly">>]
     ELSE IF StageFailed(report, "canonical_validate") \/ includes(error, "canonical") THEN
       [kind |-> "BRIDGE_CANONICAL_INVALID", message |-> "Canonical schema validation failed.",
        hints |-> <<"Normalize citations map and ensure all canonical required keys exist">>]
     ELSE IF RepairAttempts(report) >= 2 /\ FinalNotOk(report) THEN
       [kind |-> "REPAIR_EXHAUSTED", message |-> "Repair attempts exhausted.",
        hints |-> <<"Tighten synthesizer template",
                    "Increase evidence quality before synthesis">>]
     ELSE IF /\ OrElse(args.gapItersUsed, 0) >= OrElse(args.maxGapIters, 0)
             /\ OrElse(args.evidenceAddedTotal, 0) >= 5
             /\ FinalNotOk(report) THEN
       [kind |-> "EVIDENCE_INSUFFICIENT",
        message |-> "Gap loop exhausted with insufficient evidence coverage.",
        hints |-> <<"Increase issuesExtraLimit", "Enable readmeFallback",
                    "Raise evidenceMaxTotal slightly">>]
     ELSE
       [kind |-> "UNKNOWN",
        message |-> OrElse(args.error,
                           IF report = NoParam THEN "Unknown failure"
                           ELSE OrElse(report[1].final.reason, "Unknown failure")),
        hints |-> <<"Inspect report artifact and llm_audits for details">>]

----------------------------------------------------------------------------
(* classifyFailure on its own: one call on every argument.                 *)

\* an optional value drawn from S
Maybe(S) == {NoParam} \cup {<<x>> : x \in S}

ClassifyErrors ==
  Maybe({"bridge failed", "GitHub API rate limit", "Fetch error",
         "Wire validation failed", "canonical parse"})

\* BridgeReport.final: the counts are optional, a failed report carries a reason
ReportFinals ==
  UNION {[ok : {ok}, reason : IF ok THEN {NoParam} ELSE {<<"quality gate failed">>},
          unknown_ids_count : Maybe({0, 1}), empty_fields_count : Maybe({0, 2}),
          coverage_ratio : Maybe({RatioScale \div 2, RatioScale})] : ok \in BOOLEAN}

StageOf(name, ok) == [name |-> name, ok |-> ok]
ReportStages ==
  {<<>>,
   <<StageOf("parse", TRUE), StageOf("wire_validate", FALSE)>>,
   <<StageOf("wire_validate", TRUE), StageOf("canonical_validate", FALSE)>>,
   <<StageOf("canonical_validate", TRUE), StageOf("repair", TRUE)>>,
   <<StageOf("canonical_validate", TRUE), StageOf("repair", FALSE), StageOf("repair", TRUE)>>}

ClassifyReports == Maybe([final : ReportFinals, stages : ReportStages])

\* gapItersUsed, maxGapIters, evidenceAddedTotal
GapArguments ==
  {<<NoParam, NoParam, NoParam>>, <<<<1>>, <<2>>, <<5>>>>, <<<<2>>, <<2>>, <<5>>>>,
   <<<<2>>, <<2>>, <<4>>>>}

ClassifyInit ==
  /\ \E g \in GapArguments :
       cin \in [error : ClassifyErrors, report : ClassifyReports,
                isFetchError : Maybe({TRUE}), budgetCutoff : Maybe(BOOLEAN),
                gapItersUsed : {g[1]}, maxGapIters : {g[2]}, evidenceAddedTotal : {g[3]}]
  /\ cout = NoDoc
  /\ ClassifyAlone

CallClassifyFailure ==
  /\ cout = NoDoc
  /\ cout' = classifyFailure(cin)
  /\ UNCHANGED <<cin, ClassifyOthers>>

ClassifyNext == CallClassifyFailure

ClassifySpec == ClassifyInit /\ [][ClassifyNext]_vars

----------------------------------------------------------------------------
(* The budget manager (scripts/budget.ts) and the llm_spec_generator node  *)
(* of the miner graph: the loop over the repository cards and the gap loop *)
(* of each repository. chatJSONRaw, runBridge, enrichEvidence and the file *)
(* writes are the environment: each returns or throws.                     *)

\* state.config.budget, and whether createMinerGraph was given a budget manager
HasManager == nconfig.manager
BudgetEnabled == HasManager /\ nconfig.budget # NoParam /\ nconfig.budget[1].enabled

\* state.llmCallsPerRepo[repoFullName] ?? 0
CallsOf(b, repo) == IF repo \in DOMAIN b.llmCallsPerRepo THEN b.llmCallsPerRepo[repo] ELSE 0

\* Date.now() - state.runStartMs > maxWallTimeSeconds * 1000, or the token total has
\* reached its limit: b.exceeded
shouldStopRun(b) ==
  /\ BudgetEnabled
  /\ \/ b.reposProcessed >= nconfig.budget[1].maxReposPerRun
     \/ b.exceeded
     \/ b.llmCallsTotal >= nconfig.budget[1].maxTotalLlmCallsPerRun

\* mutant: the limit itself is still allowed
shouldStopRepo_Above(b, repo) ==
  BudgetEnabled /\ CallsOf(b, repo) > nconfig.budget[1].maxLlmCallsPerRepo

shouldStopRepo(b, repo) ==
  BudgetEnabled /\ CallsOf(b, repo) >= nconfig.budget[1].maxLlmCallsPerRepo

beginRepo(b, repo) ==
  IF HasManager /\ repo \notin DOMAIN b.llmCallsPerRepo
    THEN [b EXCEPT !.llmCallsPerRepo = Put(@, repo, 0)]
    ELSE b

\* handleAudit: every audit of chatJSONRaw carries prompt_chars and completion_chars
recordLlmCall(b, repo) ==
  IF HasManager
    THEN [b EXCEPT !.llmCallsTotal = @ + 1,
                   !.llmCallsPerRepo = Put(@, repo, CallsOf(b, repo) + 1)]
    ELSE b

RECURSIVE recordLlmCalls(_, _, _)
recordLlmCalls(b, repo, n) ==
  IF n = 0 THEN b ELSE recordLlmCalls(recordLlmCall(b, repo), repo, n - 1)

finishRepo(b) == IF HasManager THEN [b EXCEPT !.reposProcessed = @ + 1] ELSE b

\* mutant: the budget limit on gap iterations is not applied
MaxItersOf_NoBudget(config) ==
  IF config.gapEnabled THEN Max(1, config.gapMaxIters) ELSE 1

\* gapLoop.enabled ? Math.max(1, Math.min(gapLoop.maxIters,
\*   state.config.budget?.maxGapItersPerRepo ?? gapLoop.maxIters)) : 1
MaxItersOf(config) ==
  IF config.gapEnabled
    THEN Max(1, Min(config.gapMaxIters,
                    IF config.budget = NoParam THEN config.gapMaxIters
                    ELSE config.budget[1].maxGapItersPerRepo))
    ELSE 1

\* state.config.budget?.maxRepairAttempts ?? 2
RepairBudget(config) ==
  IF config.budget = NoParam THEN 2 ELSE config.budget[1].maxRepairAttempts

\* Math.min(2, state.config.budget?.maxRepairAttempts ?? 2)
RepairLimit(config) ==
  Min(2, IF config.budget = NoParam THEN 2 ELSE config.budget[1].maxRepairAttempts)


\* the inputs of the node: the configuration and the repository cards
MaxRepos == 2
MaxGapIters == 3
RepoName(i) == "repo/" \o ToString(i)
CardLists == {[i \in 1..k |-> RepoName(i)] : k \in 0..MaxRepos}

\* config.budget (run.ts 55-65): the limits the node reads; a roomy budget allows
\* every gap iteration and repair, a tight one a single iteration and no repair
BudgetOf(enabled, perRepo, repos, roomy) ==
  [enabled |-> enabled, maxLlmCallsPerRepo |-> perRepo, maxReposPerRun |-> repos,
   maxGapItersPerRepo |-> IF roomy THEN MaxGapIters ELSE 1,
   maxTotalLlmCallsPerRun |-> IF roomy THEN 20 ELSE 2,
   maxRepairAttempts |-> IF roomy THEN 3 ELSE 0]
BudgetConfigs ==
  {NoParam, <<BudgetOf(FALSE, 1, 1, TRUE)>>}
    \cup {<<BudgetOf(TRUE, perRepo, repos, roomy)>> :
            perRepo \in {0, 1, 3}, repos \in {1, MaxRepos}, roomy \in BOOLEAN}

\* gapLoop.enabled and gapLoop.maxIters
GapLoops == {[enabled |-> TRUE, maxIters |-> n] : n \in {0, 2, MaxGapIters}}
              \cup {[enabled |-> FALSE, maxIters |-> MaxGapIters]}
\* pruning.rerunSynthWithoutEnrichOnce, the strategy of the iterations after the
\* first (pruning.iter2PlusStrategy or gapLoop.rerunStrategy), and the
\* repositories named in state.gaps
Reruns ==
  {[rerunOnce |-> FALSE, strategy |-> "synth_only", gaps |-> {}],
   [rerunOnce |-> TRUE, strategy |-> "synth_only", gaps |-> {RepoName(1)}],
   [rerunOnce |-> FALSE, strategy |-> "bridge_only", gaps |-> {}]}
\* createMinerGraph is given the budget manager (run.ts 174-175) or, for a
\* regression run, none (run.ts 228)
NodeConfigs ==
  {[gapEnabled |-> g.enabled, gapMaxIters |-> g.maxIters, budget |-> b, manager |-> m,
    rerunOnce |-> r.rerunOnce, strategy |-> r.strategy, gaps |-> r.gaps] :
     g \in GapLoops, b \in BudgetConfigs, m \in {TRUE}, r \in Reruns}
   \cup
  {[gapEnabled |-> g.enabled, gapMaxIters |-> g.maxIters,
    budget |-> <<BudgetOf(TRUE, 1, 1, roomy)>>, manager |-> FALSE,
    rerunOnce |-> FALSE, strategy |-> "synth_only", gaps |-> {}] :
     g \in GapLoops, roomy \in BOOLEAN}

\* the entries pushed to specResults and perRepoGapLoop
FailedResult(repo, error, classified) ==
  [repo |-> repo, ok |-> FALSE, error |-> error, fail_kind |-> classified.kind,
   fail_message |-> classified.message, hints |-> classified.hints]
OkResult(repo) == [repo |-> repo, ok |-> TRUE, spec_path |-> "specs/" \o repo \o ".json"]
GapEntry(repo, attempts, success, lastError) ==
  [repo |-> repo, attempts_used |-> attempts, success |-> success, last_error |-> lastError]

\* the reports of a failed runBridge: the wire document did not validate, or the
\* gates failed
WireInvalidReport ==
  [final |-> [ok |-> FALSE, reason |-> <<"wire schema invalid">>, unknown_ids_count |-> NoParam,
              empty_fields_count |-> NoParam, coverage_ratio |-> NoParam],
   stages |-> <<StageOf("parse", TRUE), StageOf("wire_validate", FALSE)>>]
GatesFailedReport ==
  [final |-> [ok |-> FALSE, reason |-> <<"quality gate failed">>, unknown_ids_count |-> <<0>>,
              empty_fields_count |-> <<1>>, coverage_ratio |-> <<RatioScale \div 2>>],
   stages |-> <<StageOf("canonical_validate", TRUE), StageOf("quality_gate", FALSE)>>]
OkReport ==
  [final |-> [ok |-> TRUE, reason |-> NoParam, unknown_ids_count |-> <<0>>,
              empty_fields_count |-> <<0>>, coverage_ratio |-> <<RatioScale>>],
   stages |-> <<StageOf("canonical_validate", TRUE), StageOf("quality_gate", TRUE)>>]
\* what runBridge can return: ok with a canonical document, or a failure report
BridgeOutcomes == {[ok |-> TRUE, report |-> OkReport], [ok |-> FALSE, report |-> WireInvalidReport],
                  [ok |-> FALSE, report |-> GatesFailedReport]}

CurrentRepo == ncards[nrepo]
IsFetchError(repo) == repo \in nconfig.gaps

\* the locals declared at the top of the for-of body
FreshLocals ==
  [finalBridge |-> NoParam, usedIterations |-> 0, addedEvidenceTotal |-> 0,
   lastError |-> NoParam, lastWireRaw |-> FALSE, didRerunSynthWithoutEnrich |-> FALSE,
   maxIters |-> MaxItersOf(nconfig)]
FreshHistory ==
  [iters |-> 0, synthCalls |-> 0, bridgeCalls |-> 0, stopReported |-> FALSE,
   llmAfterStop |-> FALSE, iterAfterStop |-> FALSE, lastBridge |-> NoParam,
   reruns |-> 0, enrichCalls |-> 0, rerunCause |-> NoParam]

\* finalBridge?.report.final.reason ?? lastError ?? "bridge failed"
FailureText(local) ==
  IF local.finalBridge # NoParam /\ local.finalBridge[1].report.final.reason # NoParam
    THEN local.finalBridge[1].report.final.reason[1]
    ELSE OrElse(local.lastError, "bridge failed")

\* the catch block of the per-repository try: one failed entry, finishRepo
Caught(message) ==
  LET classified == classifyFailure([error |-> <<message>>, report |-> NoParam,
                                     isFetchError |-> <<IsFetchError(CurrentRepo)>>,
                                     budgetCutoff |-> NoParam, gapItersUsed |-> NoParam,
                                     maxGapIters |-> NoParam, evidenceAddedTotal |-> NoParam])
  IN [nout EXCEPT
        !.fail_taxonomy_summary[classified.kind] = @ + 1,
        !.specs_failed = @ + 1,
        !.spec_results = Append(@, FailedResult(CurrentRepo, message, classified)),
        !.per_repo_gap_loop =
           Append(@, GapEntry(CurrentRepo, nlocal.usedIterations, FALSE, <<message>>))]

NodeInit ==
  /\ nconfig \in NodeConfigs
  /\ ncards \in CardLists
  /\ npc = "repo"
  /\ nrepo = 1
  /\ niter = 0
  /\ nlocal = FreshLocals
  /\ nbudget = [llmCallsTotal |-> 0, llmCallsPerRepo |-> [r \in {} |-> 0],
                reposProcessed |-> 0, exceeded |-> FALSE]
  /\ nout = [spec_results |-> <<>>, per_repo_gap_loop |-> <<>>, status |-> NoParam,
             specs_succeeded |-> 0, specs_failed |-> 0,
             fail_taxonomy_summary |-> [kind \in FailKinds |-> 0]]
  /\ nhist = FreshHistory
  /\ NodeAlone

\* the for-of loop is over, or shouldStopRun breaks it: the node returns
NodeReturn ==
  /\ npc = "repo"
  /\ \E late \in {nbudget.exceeded, TRUE} :
       /\ nrepo > Len(ncards) \/ shouldStopRun([nbudget EXCEPT !.exceeded = late])
       /\ nbudget' = [nbudget EXCEPT !.exceeded = IF nrepo > Len(ncards) THEN @ ELSE late]
  /\ npc' = "done"
  /\ nout' = [nout EXCEPT !.status = <<"ok">>]
  /\ UNCHANGED <<nconfig, ncards, nrepo, niter, nlocal, nhist, NodeOthers>>

\* shouldStopRepo stops the repository before its first iteration
RepoBudgetCutoff ==
  /\ npc = "repo" /\ nrepo <= Len(ncards)
  /\ ~shouldStopRun(nbudget)
  /\ LET b == beginRepo(nbudget, CurrentRepo)
         reason == "maxLlmCallsPerRepo reached"
         classified == classifyFailure([error |-> <<reason>>, report |-> NoParam,
                                        isFetchError |-> NoParam, budgetCutoff |-> <<TRUE>>,
                                        gapItersUsed |-> NoParam, maxGapIters |-> NoParam,
                                        evidenceAddedTotal |-> NoParam])
     IN /\ shouldStopRepo(b, CurrentRepo)
        /\ nbudget' = b
        /\ nout' = [nout EXCEPT
                      !.fail_taxonomy_summary[classified.kind] = @ + 1,
                      !.spec_results = Append(@, FailedResult(CurrentRepo, reason, classified)),
                      !.per_repo_gap_loop = Append(@, GapEntry(CurrentRepo, 0, FALSE, <<reason>>))]
  /\ UNCHANGED <<nlocal, nhist>>
  /\ nrepo' = nrepo + 1
  /\ UNCHANGED <<nconfig, ncards, npc, niter, NodeOthers>>

\* the repository is started: its locals, maxIters, and iter = 1
RepoStart ==
  /\ npc = "repo" /\ nrepo <= Len(ncards)
  /\ ~shouldStopRun(nbudget)
  /\ ~shouldStopRepo(beginRepo(nbudget, CurrentRepo), CurrentRepo)
  /\ nbudget' = beginRepo(nbudget, CurrentRepo)
  /\ niter' = 1
  /\ UNCHANGED <<nlocal, nhist>>
  /\ npc' = "iter"
  /\ UNCHANGED <<nconfig, ncards, nrepo, nout, NodeOthers>>

\* the head of the gap loop: for (iter = 1; iter <= maxIters; iter += 1), and the
\* choice between a synthesis call and the previous wire output
IterStart ==
  /\ npc = "iter"
  /\ IF niter > nlocal.maxIters
       THEN /\ npc' = "finish"
            /\ UNCHANGED <<nlocal, nhist>>
       ELSE LET shouldRunSynth == \/ niter = 1
                                  \/ nconfig.strategy \in {"synth_only", "full"}
                                  \/ ~nlocal.lastWireRaw
            IN /\ nlocal' = [nlocal EXCEPT !.usedIterations = niter]
               /\ npc' = IF shouldRunSynth THEN "synth" ELSE "bridge"
               /\ nhist' = [nhist EXCEPT
                    !.iters = @ + 1,
                    !.iterAfterStop = @ \/ nhist.stopReported,
                    !.synthCalls = IF shouldRunSynth THEN 1 ELSE 0,
                    !.bridgeCalls = IF shouldRunSynth THEN 0 ELSE 1,
                    !.llmAfterStop = @ \/ (shouldRunSynth /\ nhist.stopReported)]
  /\ UNCHANGED <<nconfig, ncards, nrepo, niter, nbudget, nout, NodeOthers>>

\* the catch of the synthesis step: GAP_FAIL, then the next iteration after an
\* enrichment, or the end of the loop
SynthFailed(message, b, stopped) ==
  /\ nbudget' = b
  /\ nlocal' = [nlocal EXCEPT !.lastError = <<message>>]
  /\ nhist' = [nhist EXCEPT
       !.stopReported = @ \/ stopped,
       !.enrichCalls = IF niter >= nlocal.maxIters THEN @ ELSE @ + 1]
  /\ npc' = IF niter >= nlocal.maxIters THEN "finish" ELSE "enrich"
  /\ UNCHANGED <<nconfig, ncards, nrepo, niter, nout, NodeOthers>>

\* chatJSONRaw returns the wire output; the call is recorded, then shouldStopRepo
SynthReturns ==
  /\ npc = "synth"
  /\ LET b == recordLlmCall(nbudget, CurrentRepo)
     IN IF shouldStopRepo(b, CurrentRepo)
          THEN SynthFailed("Budget cutoff during repo synthesis", b, TRUE)
          ELSE /\ nbudget' = b
               /\ nlocal' = [nlocal EXCEPT !.lastWireRaw = TRUE]
               /\ nhist' = [nhist EXCEPT !.bridgeCalls = @ + 1]
               /\ npc' = "bridge"
               /\ UNCHANGED <<nconfig, ncards, nrepo, niter, nout, NodeOthers>>

\* chatJSONRaw throws; its audit is emitted before the error is thrown again
SynthThrows ==
  /\ npc = "synth"
  /\ SynthFailed("LLM request failed", recordLlmCall(nbudget, CurrentRepo), FALSE)

\* the end of the per-repository try or of its catch: finishRepo, the next card
\* whose locals are fresh
NextRepo(out) ==
  /\ nbudget' = finishRepo(nbudget)
  /\ nout' = out
  /\ nlocal' = FreshLocals
  /\ nhist' = FreshHistory
  /\ nrepo' = nrepo + 1
  /\ niter' = 0
  /\ npc' = "repo"
  /\ UNCHANGED <<nconfig, ncards, NodeOthers>>

\* enrichEvidence returns the enriched card: continue with the next iteration
EnrichReturns ==
  /\ npc = "enrich"
  /\ \E added \in {0, 5} :
       nlocal' = [nlocal EXCEPT !.addedEvidenceTotal = @ + added]
  /\ niter' = niter + 1
  /\ npc' = "iter"
  /\ UNCHANGED <<nconfig, ncards, nrepo, nbudget, nout, nhist, NodeOthers>>

\* enrichEvidence throws: the catch of the per-repository try
EnrichThrows ==
  /\ npc = "enrich"
  /\ NextRepo(Caught("enrichment failed"))

\* mutant: every failure counts as instability
failureLooksLlmUnstable_Always(report, attemptsUsed, manyEvidence) == TRUE

\* the stages wire_validate or canonical_validate failed, or attempts_used has
\* reached budget.maxRepairAttempts (2 without a budget) with no unknown id on a
\* card with ten or more evidence items
failureLooksLlmUnstable(report, attemptsUsed, manyEvidence) ==
  \/ StageFailed(<<report>>, "wire_validate")
  \/ StageFailed(<<report>>, "canonical_validate")
  \/ /\ attemptsUsed >= RepairBudget(nconfig)
     /\ OrElse(report.final.unknown_ids_count, 0) = 0
     /\ manyEvidence

\* runBridge returns after k repair calls (none, or all it may make), each recorded
\* by handleAudit; attempts_used of a report that reached the gates is k
BridgeReturns ==
  /\ npc = "bridge"
  /\ \E outcome \in BridgeOutcomes, k \in {0, RepairLimit(nconfig)}, manyEvidence \in BOOLEAN :
       /\ outcome.report = WireInvalidReport => k = 0
       /\ nbudget' = recordLlmCalls(nbudget, CurrentRepo, k)
       /\ IF outcome.ok
            THEN /\ nlocal' = [nlocal EXCEPT !.finalBridge = <<outcome>>]
                 /\ nhist' = [nhist EXCEPT !.lastBridge = <<outcome.ok>>,
                                !.llmAfterStop = @ \/ (k > 0 /\ nhist.stopReported)]
                 /\ npc' = "finish"
                 /\ niter' = niter
            ELSE LET local == [nlocal EXCEPT
                                 !.finalBridge = <<outcome>>,
                                 !.lastError = <<OrElse(outcome.report.final.reason,
                                                        "bridge failed")>>]
                     hist == [nhist EXCEPT !.lastBridge = <<outcome.ok>>,
                                !.llmAfterStop = @ \/ (k > 0 /\ nhist.stopReported)]
                     rerun == /\ nconfig.rerunOnce
                              /\ ~nlocal.didRerunSynthWithoutEnrich
                              /\ failureLooksLlmUnstable(outcome.report, k, manyEvidence)
                 IN IF niter >= nlocal.maxIters
                      THEN nlocal' = local /\ nhist' = hist /\ npc' = "finish" /\ niter' = niter
                    ELSE IF rerun
                      THEN /\ nlocal' = [local EXCEPT !.didRerunSynthWithoutEnrich = TRUE]
                           /\ nhist' = [hist EXCEPT
                                !.reruns = @ + 1,
                                !.rerunCause = <<[report |-> outcome.report, attempts_used |-> k,
                                                  manyEvidence |-> manyEvidence]>>]
                           /\ npc' = "iter"
                           /\ niter' = niter + 1
                    ELSE /\ nlocal' = local
                         /\ nhist' = [hist EXCEPT !.enrichCalls = @ + 1]
                         /\ npc' = "enrich" /\ niter' = niter
  /\ UNCHANGED <<nconfig, ncards, nrepo, nout, NodeOthers>>

\* runBridge throws: the catch of the per-repository try
BridgeThrows ==
  /\ npc = "bridge"
  /\ NextRepo(Caught("bridge crashed"))

\* after the loop without an ok bridge: the failure is classified and recorded
FinishFailed ==
  /\ npc = "finish"
  /\ IF nlocal.finalBridge = NoParam THEN TRUE ELSE ~nlocal.finalBridge[1].ok
  /\ LET text == FailureText(nlocal)
         classified ==
           classifyFailure(
             [error |-> <<text>>,
              report |-> IF nlocal.finalBridge = NoParam THEN NoParam
                         ELSE <<nlocal.finalBridge[1].report>>,
              isFetchError |-> <<IsFetchError(CurrentRepo)>>, budgetCutoff |-> NoParam,
              gapItersUsed |-> <<nlocal.usedIterations>>,
              maxGapIters |-> <<nlocal.maxIters>>,
              evidenceAddedTotal |-> <<nlocal.addedEvidenceTotal>>])
     IN NextRepo([nout EXCEPT
                    !.specs_failed = @ + 1,
                    !.fail_taxonomy_summary[classified.kind] = @ + 1,
                    !.spec_results = Append(@, FailedResult(CurrentRepo, text, classified)),
                    !.per_repo_gap_loop =
                       Append(@, GapEntry(CurrentRepo, nlocal.usedIterations, FALSE, <<text>>))])

\* writeReportArtifact of the final report throws: the catch of the try
FinishThrows ==
  /\ npc = "finish"
  /\ nlocal.finalBridge # NoParam
  /\ NextRepo(Caught("report write failed"))

\* after the loop with an ok bridge: the canonical document is written
WriteOk ==
  /\ npc = "finish"
  /\ nlocal.finalBridge # NoParam /\ nlocal.finalBridge[1].ok
  /\ NextRepo([nout EXCEPT
                 !.specs_succeeded = @ + 1,
                 !.spec_results = Append(@, OkResult(CurrentRepo)),
                 !.per_repo_gap_loop =
                    Append(@, GapEntry(CurrentRepo, nlocal.usedIterations, TRUE, NoParam))])

NodeNext ==
  \/ NodeReturn
  \/ RepoBudgetCutoff
  \/ RepoStart
  \/ IterStart
  \/ SynthReturns
  \/ SynthThrows
  \/ EnrichReturns
  \/ EnrichThrows
  \/ BridgeReturns
  \/ BridgeThrows
  \/ FinishFailed
  \/ FinishThrows
  \/ WriteOk

NodeSpec == NodeInit /\ [][NodeNext]_vars

----------------------------------------------------------------------------
(* withRetry (scripts/prompts.ts) and the GitHub requests made through it  *)
(* (scripts/github.ts). The operation fn is the environment: each          *)
(* invocation returns or throws an error.                                  *)

MaxRetries == 3
\* fetchWithRetry: retries: 2
GitHubRetries == 2

\* the errors an operation throws: a GitHubRequestError carries the HTTP status,
\* any other error (a network error) carries none; nth tells the throws apart
HttpStatuses == {400, 401, 403, 404, 429, 499, 500, 503, 599}
ErrorOf(status, nth) == [status |-> status, nth |-> nth]

isRetriableGitHubError(error) ==
  IF error.status # NoParam
    THEN error.status[1] = 429 \/ (error.status[1] >= 500 /\ error.status[1] <= 599)
    ELSE TRUE

\* opts.retryOn: the predicate of fetchWithRetry, or one that accepts every or no
\* error
RetryOn(name, error) ==
  CASE name = "isRetriableGitHubError" -> isRetriableGitHubError(error)
    [] name = "always" -> TRUE
    [] name = "never" -> FALSE

RetryConfigs ==
  {[retries |-> n, retryOn |-> name, github |-> FALSE] :
     n \in 0..MaxRetries, name \in {"always", "never", "isRetriableGitHubError"}}
    \cup {[retries |-> GitHubRetries, retryOn |-> "isRetriableGitHubError", github |-> TRUE]}

\* the event names of fetchWithRetry's onRetry and onGiveup
RetryEvent == IF rcfg.github THEN "GITHUB_RETRY" ELSE "retry"
GiveupEvent == IF rcfg.github THEN "GITHUB_RETRY_GIVEUP" ELSE "giveup"

RetryInit ==
  /\ rcfg \in RetryConfigs
  /\ rpc = "loop"
  /\ rattempt = 0
  /\ rerrors = <<>>
  /\ rcalls = 0
  /\ revents = <<>>
  /\ rresult = NoDoc
  /\ RetryAlone

\* for (let attempt = 0; attempt <= opts.retries; ...): fn is invoked, or the loop
\* is over and lastError is thrown
RetryInvoke ==
  /\ rpc = "loop"
  /\ IF rattempt <= rcfg.retries
       THEN rpc' = "fn" /\ rcalls' = rcalls + 1 /\ UNCHANGED rresult
       ELSE /\ rpc' = "done"
            /\ rresult' = [threw |-> TRUE,
                           error |-> IF rerrors = <<>> THEN NoParam
                                     ELSE <<rerrors[Len(rerrors)]>>]
            /\ UNCHANGED rcalls
  /\ UNCHANGED <<rcfg, rattempt, rerrors, revents, RetryOthers>>

\* return await fn()
FnReturns ==
  /\ rpc = "fn"
  /\ rresult' = [threw |-> FALSE, value |-> rcalls]
  /\ rpc' = "done"
  /\ UNCHANGED <<rcfg, rattempt, rerrors, rcalls, revents, RetryOthers>>

\* mutant: one retry more than opts.retries
GiveUp_OneMore(att, error) == att > rcfg.retries \/ ~RetryOn(rcfg.retryOn, error)

\* attempt >= opts.retries || !opts.retryOn(error)
GiveUp(att, error) == att >= rcfg.retries \/ ~RetryOn(rcfg.retryOn, error)

\* fn throws: the catch block gives up and rethrows, or reports a retry and sleeps
FnThrows ==
  /\ rpc = "fn"
  /\ \E status \in Maybe(HttpStatuses) :
       LET error == ErrorOf(status, rcalls)
       IN /\ rerrors' = Append(rerrors, error)
          /\ IF GiveUp(rattempt, error)
               THEN /\ revents' = Append(revents, [event |-> GiveupEvent,
                                                   attempt |-> rattempt + 1])
                    /\ rresult' = [threw |-> TRUE, error |-> <<error>>]
                    /\ rpc' = "done"
               ELSE /\ revents' = Append(revents, [event |-> RetryEvent,
                                                   attempt |-> rattempt + 1])
                    /\ rpc' = "sleep"
                    /\ UNCHANGED rresult
  /\ UNCHANGED <<rcfg, rattempt, rcalls, RetryOthers>>

\* the backoff delay has passed: attempt += 1
SleepOver ==
  /\ rpc = "sleep"
  /\ rattempt' = rattempt + 1
  /\ rpc' = "loop"
  /\ UNCHANGED <<rcfg, rerrors, rcalls, revents, rresult, RetryOthers>>

RetryNext == RetryInvoke \/ FnReturns \/ FnThrows \/ SleepOver

RetrySpec == RetryInit /\ [][RetryNext]_vars

----------------------------------------------------------------------------
(* mapLimit (concurrency.ts). Indexes are those of the code, from 0. The    *)
(* synchronous part of a worker, from a resumed await to the next await, is *)
(* one step; asyncMapper is the environment: an invocation resolves or      *)
(* rejects, in any order.                                                   *)

MaxMapItems == 4
MaxLimit == 3

\* the value asyncMapper(items[i], i) resolves to
MapperResult(i) == <<"f", i>>

\* mutant: one worker for every item
WorkerCount_PerItem(limit, n) == n

\* Math.min(limit, items.length)
WorkerCount(limit, n) == Min(limit, n)

MapInit ==
  /\ mitems \in 0..MaxMapItems
  /\ mlimit \in 0..MaxLimit
  /\ mnext = 0
  /\ mworkers = <<>>
  /\ mresults = [i \in 0..(mitems - 1) |-> NoParam]
  /\ minvoked = [i \in 0..(mitems - 1) |-> 0]
  /\ mreturn = NoDoc
  /\ MapAlone

\* const currentIndex = nextIndex; nextIndex += 1; then the worker returns or
\* invokes asyncMapper: worker k of count takes index first + k - 1
Taken(first, k) ==
  IF first + k - 1 >= mitems THEN [pc |-> "returned", idx |-> first + k - 1]
  ELSE [pc |-> "await", idx |-> first + k - 1]

\* the call: the check of limit, then the workers are created one after the other,
\* each running to its first await
MapCall ==
  /\ mreturn = NoDoc /\ mworkers = <<>> /\ mnext = 0
  /\ IF mlimit < 1
       THEN /\ mreturn' = [threw |-> TRUE, error |-> "mapLimit requires limit >= 1"]
            /\ UNCHANGED <<mnext, mworkers, minvoked>>
       ELSE LET count == WorkerCount(mlimit, mitems)
            IN /\ count > 0
               /\ mworkers' = [k \in 1..count |-> Taken(0, k)]
               /\ mnext' = count
               /\ minvoked' = [i \in 0..(mitems - 1) |->
                                 IF i < count THEN minvoked[i] + 1 ELSE minvoked[i]]
               /\ UNCHANGED mreturn
  /\ UNCHANGED <<mitems, mlimit, mresults, MapOthers>>

\* asyncMapper resolves for worker w: the result is stored and the worker takes
\* the next index
MapperResolves(w) ==
  /\ mworkers[w].pc = "await"
  /\ mresults' = [mresults EXCEPT ![mworkers[w].idx] = <<MapperResult(mworkers[w].idx)>>]
  /\ mworkers' = [mworkers EXCEPT ![w] = Taken(mnext, 1)]
  /\ mnext' = mnext + 1
  /\ minvoked' = IF mnext < mitems THEN [minvoked EXCEPT ![mnext] = @ + 1] ELSE minvoked
  /\ UNCHANGED <<mitems, mlimit, mreturn, MapOthers>>

\* asyncMapper rejects for worker w: the worker's promise rejects, and Promise.all
\* with it unless it has rejected already
MapperRejects(w) ==
  /\ mworkers[w].pc = "await"
  /\ mworkers' = [mworkers EXCEPT ![w].pc = "rejected"]
  /\ mreturn' = IF mreturn = NoDoc
                  THEN [threw |-> TRUE, error |-> <<"rejected", mworkers[w].idx>>]
                  ELSE mreturn
  /\ UNCHANGED <<mitems, mlimit, mnext, mresults, minvoked, MapOthers>>

\* every worker has returned: Promise.all resolves and results is returned
MapReturns ==
  /\ mreturn = NoDoc
  /\ mlimit >= 1
  /\ mworkers # <<>> \/ mitems = 0
  /\ \A w \in DOMAIN mworkers : mworkers[w].pc = "returned"
  /\ mreturn' = [threw |-> FALSE, results |-> mresults]
  /\ UNCHANGED <<mitems, mlimit, mnext, mworkers, mresults, minvoked, MapOthers>>

MapNext ==
  \/ MapCall
  \/ \E w \in DOMAIN mworkers : MapperResolves(w)
  \/ \E w \in DOMAIN mworkers : MapperRejects(w)
  \/ MapReturns

MapSpec == MapInit /\ [][MapNext]_vars

----------------------------------------------------------------------------
(* The deduper node (the graph of scripts/graph.ts) over specs/index.json. *)
(* pushed_at is an ISO-8601 instant in GitHub's fixed format, so the       *)
(* string order of the filter and the Date order of the sort agree: it is  *)
(* modelled by its rank.                                                    *)

MaxCands == 2
MaxPushed == 2
MaxRuns == 2

RepoNames == {"o/a", "o/b"}
Candidates == [full_name : RepoNames, pushed_at : 1..MaxPushed]
CandidateLists == UNION {[1..n -> Candidates] : n \in 0..MaxCands}
DedupeConfigs ==
  [allowRefresh : BOOLEAN, bridge_only : BOOLEAN, maxNewReposPerRun : {1, MaxCands}]

createEmptyIndex == [n \in RepoNames |-> NoParam]

updateIndexSeen(index, repoFullName, pushedAt, runId) ==
  [index EXCEPT ![repoFullName] = <<[last_pushed_at |-> pushedAt, last_run_id |-> runId]>>]

RECURSIVE SeenAll(_, _, _)
SeenAll(index, cs, runId) ==
  IF cs = <<>> THEN index
  ELSE SeenAll(updateIndexSeen(index, Head(cs).full_name, Head(cs).pushed_at, runId),
               Tail(cs), runId)

KeepCandidate_OrEqual(index, allowRefresh, candidate) ==
  LET entry == index[candidate.full_name] IN
  IF entry = NoParam THEN TRUE
  ELSE allowRefresh /\ candidate.pushed_at >= entry[1].last_pushed_at
KeepCandidate(index, allowRefresh, candidate) ==
  LET entry == index[candidate.full_name] IN
  IF entry = NoParam THEN TRUE
  ELSE allowRefresh /\ candidate.pushed_at > entry[1].last_pushed_at

RECURSIVE SortByPushedDesc(_)
SortByPushedDesc(cs) ==
  IF cs = <<>> THEN <<>>
  ELSE LET i == CHOOSE i \in 1..Len(cs) :
                  /\ \A j \in 1..Len(cs) : cs[j].pushed_at <= cs[i].pushed_at
                  /\ \A j \in 1..(i - 1) : cs[j].pushed_at < cs[i].pushed_at
       IN <<cs[i]>> \o SortByPushedDesc(SubSeq(cs, 1, i - 1) \o SubSeq(cs, i + 1, Len(cs)))

Kept(index, config, cs) ==
  LET filtered == SelectSeq(cs, LAMBDA c : KeepCandidate(index, config.allowRefresh, c))
  IN Slice(SortByPushedDesc(filtered), config.maxNewReposPerRun)

DedupeRun(config, cs, new) ==
  [config |-> config, candidates |-> cs, loaded |-> dindex, new_candidates |-> new]

DedupeInit ==
  /\ DedupeAlone
  /\ dindex = createEmptyIndex
  /\ dhist = <<>>

DeduperBypass ==
  /\ Len(dhist) < MaxRuns
  /\ \E config \in DedupeConfigs, cs \in CandidateLists :
       /\ config.bridge_only
       /\ dhist' = Append(dhist, DedupeRun(config, cs, cs))
  /\ UNCHANGED <<dindex, DedupeOthers>>

Deduper ==
  /\ Len(dhist) < MaxRuns
  /\ \E config \in DedupeConfigs, cs \in CandidateLists :
       /\ ~config.bridge_only
       /\ dhist' = Append(dhist, DedupeRun(config, cs, Kept(dindex, config, cs)))
       /\ dindex' = SeenAll(dindex, cs, Len(dhist) + 1)
  /\ UNCHANGED DedupeOthers

DedupeNext ==
  \/ DeduperBypass
  \/ Deduper

DedupeSpec == DedupeInit /\ [][DedupeNext]_vars

----------------------------------------------------------------------------
(* Topic selection (scripts/topic_selector: selectTopicsForRun and          *)
(* finalizeTopicSelectionRun) over specs/topic_selection_state.json.        *)
(* Ratios are held as percentages; the seed topics are lower-case already.  *)

MaxSeq == 3
MaxBatch == 3

TopicLayers == <<"core", "adjacent", "explore">>
ADJACENT_TOPICS == {"api", "orm", "sqlite"}
SeedTopics == <<"tauri", "api", "desktop", "cli", "orm">>
SeedCore == {"tauri", "desktop"}
TopicConfigs ==
  [batchSize : {2, MaxBatch}, coreRatio : {50}, adjacentRatio : {30}, exploreRatio : {20},
   cooldownRuns : {1, 2}, lowYieldFreezeThreshold : {1, 2}, lowYieldFreezeRuns : {1, 2}]

emptyState ==
  [run_seq |-> 0,
   cursor |-> [l \in Range(TopicLayers) |-> 0],
   recent_runs |-> <<>>,
   topic_stats |-> [t \in {} |-> 0]]

classifyTopic(topic, coreSet) ==
  IF topic \in coreSet THEN "core"
  ELSE IF topic \in ADJACENT_TOPICS THEN "adjacent"
  ELSE "explore"

Layered(layer) == SelectSeq(SeedTopics, LAMBDA t : classifyTopic(t, SeedCore) = layer)

computeQuotas(batchSize, coreRatio, adjacentRatio, exploreRatio) ==
  LET sum == coreRatio + adjacentRatio + exploreRatio
      norm == IF sum = 0 THEN 100 ELSE sum
      core == Max(0, (batchSize * coreRatio) \div norm)
      adjacent == Max(0, (batchSize * adjacentRatio) \div norm)
  IN [core |-> core, adjacent |-> adjacent,
      explore |-> Max(0, batchSize - core - adjacent)]

RECURSIVE PickLoop(_, _, _, _, _, _, _)
PickLoop(list, need, blocked, picked, idx, scanned, blockedHits) ==
  IF Len(picked) < need /\ scanned < Len(list) * 2
  THEN LET topic == list[idx + 1]
           take == topic \notin blocked /\ topic \notin Range(picked)
       IN PickLoop(list, need, blocked,
                   IF take THEN Append(picked, topic) ELSE picked,
                   (idx + 1) % Len(list), scanned + 1,
                   IF take THEN blockedHits ELSE blockedHits + 1)
  ELSE [picked |-> picked, cursor |-> idx, blockedHits |-> blockedHits]

pickWithCursor(list, need, cursor, blocked) ==
  IF Len(list) = 0 \/ need <= 0
  THEN [picked |-> <<>>, cursor |-> cursor, blockedHits |-> 0]
  ELSE PickLoop(list, need, blocked, <<>>, cursor % Len(list), 0, 0)

\* Array.prototype.slice(-n): the last n elements, and all of them for n = 0
SliceLast(xs, n) ==
  IF n = 0 \/ n >= Len(xs) THEN xs ELSE SubSeq(xs, Len(xs) - n + 1, Len(xs))

CooldownSet(state, cfg) ==
  UNION {Range(run.topics) : run \in Range(SliceLast(state.recent_runs, cfg.cooldownRuns))}

FreezeSet(state) ==
  {t \in DOMAIN state.topic_stats : state.topic_stats[t].frozen_until_run_seq > state.run_seq}

RECURSIVE Backfill(_, _, _)
Backfill(selected, all, batchSize) ==
  IF all = <<>> \/ Len(selected) >= batchSize THEN selected
  ELSE Backfill(IF Head(all) \in Range(selected) THEN selected
                ELSE Append(selected, Head(all)),
                Tail(all), batchSize)

Backfilled(picks, cfg) ==
  LET all == Flatten([i \in 1..3 |-> Layered(TopicLayers[i])])
      selected == IF Len(picks) < cfg.batchSize
                  THEN Backfill(picks, all, cfg.batchSize) ELSE picks
  IN Slice(selected, Max(0, cfg.batchSize))

LayerPick(state, cfg, layer) ==
  pickWithCursor(Layered(layer),
                 computeQuotas(Max(1, cfg.batchSize), cfg.coreRatio, cfg.adjacentRatio,
                               cfg.exploreRatio)[layer],
                 state.cursor[layer],
                 CooldownSet(state, cfg) \cup FreezeSet(state))

TopicInit ==
  /\ TopicAlone
  /\ tcfg \in TopicConfigs
  /\ tstate = emptyState
  /\ tlast = NoDoc
  /\ tpending = FALSE

selectTopicsForRun ==
  /\ tstate.run_seq < MaxSeq
  /\ \E picks \in {[l \in Range(TopicLayers) |-> LayerPick(tstate, tcfg, l)]} :
     \E selected \in {Backfilled(picks["core"].picked \o picks["adjacent"].picked
                                   \o picks["explore"].picked, tcfg)} :
       /\ tstate' = [tstate EXCEPT
            !.run_seq = tstate.run_seq + 1,
            !.cursor = [l \in Range(TopicLayers) |-> picks[l].cursor],
            !.recent_runs = Append(SliceLast(tstate.recent_runs, 19),
                                   [run_id |-> tstate.run_seq + 1,
                                    run_seq |-> tstate.run_seq + 1,
                                    topics |-> selected])]
       /\ tlast' = [topics |-> selected, loaded |-> tstate]
  /\ tpending' = TRUE
  /\ UNCHANGED <<tcfg, TopicOthers>>

TopicStatOf(state, topic) ==
  IF topic \in DOMAIN state.topic_stats THEN state.topic_stats[topic]
  ELSE [zero_new_streak |-> 0, success_runs |-> 0,
        last_seen_run_seq |-> state.run_seq, frozen_until_run_seq |-> 0]

NextStat(state, cfg, topic, resultCount) ==
  LET prev == TopicStatOf(state, topic)
      streak == IF resultCount <= 0 THEN prev.zero_new_streak + 1 ELSE 0
      freeze == streak >= cfg.lowYieldFreezeThreshold
  IN [zero_new_streak |-> IF freeze THEN 0 ELSE streak,
      success_runs |-> IF resultCount > 0 THEN prev.success_runs + 1 ELSE prev.success_runs,
      last_seen_run_seq |-> state.run_seq,
      frozen_until_run_seq |-> IF freeze THEN state.run_seq + cfg.lowYieldFreezeRuns
                               ELSE prev.frozen_until_run_seq]

finalizeTopicSelectionRun ==
  /\ tpending
  /\ \E productive \in SUBSET Range(tlast.topics) :
       tstate' = [tstate EXCEPT !.topic_stats =
         [t \in DOMAIN tstate.topic_stats \cup Range(tlast.topics) |->
            IF t \in Range(tlast.topics)
            THEN NextStat(tstate, tcfg, t, IF t \in productive THEN 1 ELSE 0)
            ELSE tstate.topic_stats[t]]]
  /\ tpending' = FALSE
  /\ UNCHANGED <<tcfg, tlast, TopicOthers>>

TopicNext ==
  \/ selectTopicsForRun
  \/ finalizeTopicSelectionRun

TopicSpec == TopicInit /\ [][TopicNext]_vars

----------------------------------------------------------------------------
(* ensureCitationCoverage (bridge/cover.ts) called on a document and then  *)
(* on its own result.                                                       *)

MaxCoverCalls == 2

\* two screens of one id
SameIdDoc == [BaseDoc EXCEPT !.screens = <<ScreenOf("main"), ScreenOf("main")>>]
CoverBases ==
  {BaseDoc, TwoScreenDoc, TwoTestsDoc, OrphanDoc, SameIdDoc}
    \cup {[b EXCEPT !.citations.app = <<2, 1, 2>>] : b \in {BaseDoc, TwoTestsDoc}}

\* doc without the citation keys at the places G
DropPlaces(doc, G) ==
  [doc EXCEPT !.citations =
     [f \in DOMAIN @ |->
        IF f \in {"app", "core_loop"} THEN @[f]
        ELSE Without(@[f], {pl[Len(pl)] : pl \in {x \in G : x[1] = f}})]]

\* the documents the cover pass is called on: any entity may lack its key
CoverDocs ==
  UNION {{DropPlaces(b, G) : G \in SUBSET {pl \in RequiredPlaces(b) : Len(pl) = 2}} :
           b \in CoverBases}

CoverInit ==
  /\ CoverAlone
  /\ covdoc \in CoverDocs
  /\ covcfg \in GateConfigs
  /\ covruns = <<>>

CoverArgument == IF covruns = <<>> THEN covdoc ELSE covruns[Len(covruns)].canonical

CallCover ==
  /\ Len(covruns) < MaxCoverCalls
  /\ covruns' = Append(covruns, ensureCitationCoverage(CoverArgument))
  /\ UNCHANGED <<covdoc, covcfg, CoverOthers>>

CoverNext == CallCover

CoverSpec == CoverInit /\ [][CoverNext]_vars

----------------------------------------------------------------------------
(* The evidence of one repository through the gap loop of the spec         *)
(* generator: buildEvidencePack (evidence.ts), enrichEvidence (enrich.ts)  *)
(* and the loop's bookkeeping.  An evidence item is its id (prefix and     *)
(* sequence number), its type and the part of type::source_url::title that *)
(* distinguishes it within its type.                                       *)

MaxEnrich == 2
MaxIssues == 2
MaxSegments == 2

EvidenceTypes == <<"readme", "issue", "release", "root_files">>
PrefixOf(type) ==
  CASE type = "readme" -> "E-RD-"
    [] type = "issue" -> "E-IS-"
    [] type = "release" -> "E-RL-"
    [] OTHER -> "E-RF-"

formatId(prefix, index) == <<prefix, index>>

\* buildReadmeEvidence, buildIssuesEvidence, buildReleasesEvidence and
\* buildRootFilesEvidence: the item of index idx gets the id idx + 1
EvidenceOf(type, keys) ==
  [i \in 1..Len(keys) |-> [id |-> formatId(PrefixOf(type), i), type |-> type, key |-> keys[i]]]

buildEvidencePack(card) ==
  EvidenceOf("readme", SortedSeq(1..card.segments))
    \o EvidenceOf("issue", SortedSeq(card.issues))
    \o EvidenceOf("release", SortedSeq(card.releases))
    \o (IF card.root_files THEN EvidenceOf("root_files", <<0>>) ELSE <<>>)

OfType(evidence, type) == SelectSeq(evidence, LAMBDA item : item.type = type)

\* every score equal: candidates keep the order of the pack
selectEvidenceForLLM(evidencePack, maxTotal) ==
  LET byType == Slice(OfType(evidencePack, "readme"), 2)
                  \o Slice(OfType(evidencePack, "issue"), 4)
                  \o Slice(OfType(evidencePack, "release"), 1)
                  \o Slice(OfType(evidencePack, "root_files"), 1)
      remaining == SelectSeq(evidencePack, LAMBDA item : item \notin Range(byType))
  IN Slice(byType \o remaining, Max(1, maxTotal))

maxSequence(evidence, prefix) ==
  LET ns == {evidence[i].id[2] : i \in {j \in 1..Len(evidence) : evidence[j].id[1] = prefix}}
  IN IF ns = {} THEN 0 ELSE CHOOSE n \in ns : \A m \in ns : m <= n

withReassignedIds_FromOne(base, incoming, prefix) ==
  [i \in 1..Len(incoming) |-> [incoming[i] EXCEPT !.id = formatId(prefix, i)]]
withReassignedIds(base, incoming, prefix) ==
  [i \in 1..Len(incoming) |->
     [incoming[i] EXCEPT !.id = formatId(prefix, maxSequence(base, prefix) + i)]]

DedupeKey(item) == <<item.type, item.key>>
RECURSIVE dedupeFrom(_, _, _)
dedupeFrom(evidence, i, out) ==
  IF i > Len(evidence) THEN out
  ELSE dedupeFrom(evidence, i + 1,
         IF \E o \in Range(out) : DedupeKey(o) = DedupeKey(evidence[i]) THEN out
         ELSE Append(out, evidence[i]))
dedupeEvidence(evidence) == dedupeFrom(evidence, 1, <<>>)

\* what GitHub answers to one enrichment: no fetch result is a failed fetch
Fetches ==
  [readme : Maybe({MaxSegments}), issues : Maybe(SUBSET (1..MaxIssues)),
   releases : Maybe(SUBSET {1})]

EnrichAdditions(repoCard, config, fetch) ==
  LET base == repoCard.evidence
      readme == IF config.readmeFallbackEnabled /\ Len(OfType(base, "readme")) < 2
                   /\ fetch.readme # NoParam
                THEN withReassignedIds(base, EvidenceOf("readme", SortedSeq(1..fetch.readme[1])),
                                       "E-RD-")
                ELSE <<>>
      issue == IF fetch.issues # NoParam
               THEN withReassignedIds(base \o readme,
                      EvidenceOf("issue", SortedSeq(fetch.issues[1])), "E-IS-")
               ELSE <<>>
      release == IF fetch.releases # NoParam
                 THEN withReassignedIds(base \o readme \o issue,
                        EvidenceOf("release", SortedSeq(fetch.releases[1])), "E-RL-")
                 ELSE <<>>
      root == IF repoCard.root_files
              THEN withReassignedIds(base \o readme \o issue \o release,
                     EvidenceOf("root_files", <<0>>), "E-RF-")
              ELSE <<>>
  IN [readme |-> readme, issue |-> issue, release |-> release, root_files |-> root]

enrichEvidence(repoCard, config, fetch) ==
  LET adds == EnrichAdditions(repoCard, config, fetch)
      merged == dedupeEvidence(repoCard.evidence \o adds.readme \o adds.issue
                                 \o adds.release \o adds.root_files)
  IN [updatedRepoCard |-> [repoCard EXCEPT !.evidence = merged],
      added |-> [t \in DOMAIN adds |-> Len(adds[t])],
      totalEvidence |-> Len(merged)]

EnrichConfigs == [readmeFallbackEnabled : BOOLEAN, evidenceMaxTotal : {1, 3}]
EnrichCards ==
  [segments : 0..MaxSegments, issues : SUBSET (1..MaxIssues), releases : SUBSET {1},
   root_files : BOOLEAN]

EnrichInit ==
  /\ EnrichAlone
  /\ ecfg \in EnrichConfigs
  /\ \E card \in EnrichCards :
       /\ ecard = [evidence |-> buildEvidencePack(card), root_files |-> card.root_files]
       /\ egap = [iter |-> 0, initialEvidenceTotal |-> Len(buildEvidencePack(card)),
                  addedEvidenceTotal |-> 0]
  /\ eiters = <<>>
  /\ eentry = NoDoc
  /\ epc = "select"

IdsOf(evidence) == [i \in 1..Len(evidence) |-> evidence[i].id]

\* top of one iteration: evidence selected for the model, allow-list built
GapIteration ==
  /\ epc = "select"
  /\ egap.iter < MaxEnrich + 1
  /\ egap' = [egap EXCEPT !.iter = @ + 1]
  /\ eiters' = Append(eiters,
       [evidence |-> ecard.evidence,
        allowedEvidenceIds |-> IdsOf(ecard.evidence),
        offered |-> IdsOf(selectEvidenceForLLM(ecard.evidence, ecfg.evidenceMaxTotal))])
  /\ epc' = "attempt"
  /\ UNCHANGED <<ecfg, ecard, eentry, EnrichOthers>>

\* the iteration failed (synthesis or bridge) and is not the last one
GapEnrich ==
  /\ epc = "attempt"
  /\ egap.iter < MaxEnrich + 1
  /\ \E fetch \in Fetches :
       LET enriched == enrichEvidence(ecard, ecfg, fetch)
       IN /\ ecard' = enriched.updatedRepoCard
          /\ egap' = [egap EXCEPT !.addedEvidenceTotal =
                        @ + enriched.added.readme + enriched.added.issue
                          + enriched.added.release + enriched.added.root_files]
  /\ epc' = "select"
  /\ UNCHANGED <<ecfg, eiters, eentry, EnrichOthers>>

\* the loop ends, with or without a spec: the gap-loop record is written
GapRecord ==
  /\ epc = "attempt"
  /\ eentry' = [iters_used |-> egap.iter,
                evidence_total_initial |-> egap.initialEvidenceTotal,
                evidence_total_final |-> Len(ecard.evidence),
                evidence_added_total |-> egap.addedEvidenceTotal]
  /\ epc' = "done"
  /\ UNCHANGED <<ecfg, ecard, egap, eiters, EnrichOthers>>

EnrichNext ==
  \/ GapIteration
  \/ GapEnrich
  \/ GapRecord

EnrichSpec == EnrichInit /\ [][EnrichNext]_vars

----------------------------------------------------------------------------
(* The budget manager of scripts/budget.ts as the object it is: its state,  *)
(* the stop reason it keeps and the BUDGET_STOP_RUN events it logs, called  *)
(* by repo_finder and by the repository loop of llm_spec_generator, and     *)
(* asked again after the loop was left.                                     *)

MaxBudgetCards == 2
MaxLlm == 3
MaxClock == 2
MaxLaterCalls == 2

\* Math.ceil((promptChars + completionChars) / 4)
tokensApprox(promptChars, completionChars) == (promptChars + completionChars + 3) \div 4

ManagerConfigs ==
  [enabled : BOOLEAN, maxReposPerRun : {1, MaxBudgetCards + 1}, maxWallTimeSeconds : {0, MaxClock},
   maxLlmCallsPerRepo : {1, MaxLlm + 1}, maxTotalLlmCallsPerRun : {2, MaxLlm + 1},
   maxTotalTokensApproxPerRun : {2, 2 * MaxLlm + 1}]

NewBudgetState ==
  [runStartMs |-> 0, llmCallsTotal |-> 0, llmCallsPerRepo |-> <<>>, tokensApproxTotal |-> 0,
   reposProcessed |-> 0, stopReason |-> NoParam]

\* the manager: its state and the number of BUDGET_STOP_RUN events it logged
Manager == [state |-> bstate, stopRunLogged |-> btrace.stopRunLogged]

emitStopRun_Latest(m, reason) ==
  [state |-> [m.state EXCEPT !.stopReason = <<reason>>], stopRunLogged |-> m.stopRunLogged + 1]
emitStopRun(m, reason) ==
  IF m.state.stopReason = NoParam
    THEN [state |-> [m.state EXCEPT !.stopReason = <<reason>>],
          stopRunLogged |-> m.stopRunLogged + 1]
    ELSE m

\* the first limit of shouldStopRun that is reached, if any
RunLimitReached(config, state, now) ==
  IF ~config.enabled THEN NoParam
  ELSE IF state.reposProcessed >= config.maxReposPerRun THEN <<"maxReposPerRun reached">>
  ELSE IF now * 1000 - state.runStartMs > config.maxWallTimeSeconds * 1000
    THEN <<"maxWallTimeSeconds exceeded">>
  ELSE IF state.llmCallsTotal >= config.maxTotalLlmCallsPerRun
    THEN <<"maxTotalLlmCallsPerRun reached">>
  ELSE IF state.tokensApproxTotal >= config.maxTotalTokensApproxPerRun
    THEN <<"maxTotalTokensApproxPerRun reached">>
  ELSE NoParam

\* shouldStopRun(): the manager afterwards and the value returned
StopRunCall(m, config, now) ==
  LET reached == RunLimitReached(config, m.state, now)
  IN IF reached = NoParam THEN [manager |-> m, returned |-> [stop |-> FALSE, reason |-> NoParam]]
     ELSE [manager |-> emitStopRun(m, reached[1]),
           returned |-> [stop |-> TRUE, reason |-> reached]]

\* shouldStopRepo(repoFullName).stop
StopRepoCall(config, state, repo) ==
  config.enabled
    /\ (IF repo \in DOMAIN state.llmCallsPerRepo THEN state.llmCallsPerRepo[repo] ELSE 0)
         >= config.maxLlmCallsPerRepo

ManagerBeginRepo(state, repo) ==
  IF repo \in DOMAIN state.llmCallsPerRepo THEN state
  ELSE [state EXCEPT !.llmCallsPerRepo = Put(@, repo, 0)]

ManagerRecordLlmCall(state, repo, promptChars, completionChars) ==
  [state EXCEPT !.llmCallsTotal = @ + 1,
                !.llmCallsPerRepo = Put(@, repo, (IF repo \in DOMAIN @ THEN @[repo] ELSE 0) + 1),
                !.tokensApproxTotal = @ + tokensApprox(promptChars, completionChars)]

ManagerFinishRepo(state) == [state EXCEPT !.reposProcessed = @ + 1]

BudgetInit ==
  /\ BudgetAlone
  /\ bcfg \in ManagerConfigs
  /\ bstate = NewBudgetState
  /\ bnow = 0
  /\ bloop \in [phase : {"finder"}, card : {1}, cards : 0..MaxBudgetCards, later : {0}]
  /\ btrace = [runCalls |-> <<>>, stopRunLogged |-> 0, repoStopped |-> FALSE,
               startedAfterStop |-> FALSE]

RunStopped == \E i \in 1..Len(btrace.runCalls) : btrace.runCalls[i].stop

\* the manager is asked shouldStopRun(): state, log and the record of its answers
AskStopRun(call) ==
  /\ bstate' = call.manager.state
  /\ btrace' = [btrace EXCEPT !.runCalls = Append(@, call.returned),
                              !.stopRunLogged = call.manager.stopRunLogged]

\* Date.now() moves on
Tick ==
  /\ bnow < MaxClock
  /\ bnow' = bnow + 1
  /\ UNCHANGED <<bcfg, bstate, bloop, btrace, BudgetOthers>>

\* repo_finder: if (budget?.shouldStopRun().stop) return state
RepoFinderAsks ==
  /\ bloop.phase = "finder"
  /\ AskStopRun(StopRunCall(Manager, bcfg, bnow))
  /\ bloop' = [bloop EXCEPT !.phase = "loop"]
  /\ UNCHANGED <<bcfg, bnow, BudgetOthers>>

\* top of the loop over the cards: shouldStopRun, beginRepo, shouldStopRepo
LoopTop ==
  /\ bloop.phase = "loop"
  /\ bloop.card <= bloop.cards
  /\ LET call == StopRunCall(Manager, bcfg, bnow)
         repo == RepoName(bloop.card)
         begun == ManagerBeginRepo(call.manager.state, repo)
         repoStop == StopRepoCall(bcfg, begun, repo)
     IN IF call.returned.stop
          THEN /\ AskStopRun(call)
               /\ bloop' = [bloop EXCEPT !.phase = "left"]
          ELSE /\ bstate' = begun
               /\ btrace' = [btrace EXCEPT !.runCalls = Append(@, call.returned),
                                           !.stopRunLogged = call.manager.stopRunLogged,
                                           !.repoStopped = @ \/ repoStop,
                                           !.startedAfterStop = @ \/ RunStopped]
               /\ bloop' = IF repoStop THEN [bloop EXCEPT !.card = @ + 1]
                           ELSE [bloop EXCEPT !.phase = "repo"]
  /\ UNCHANGED <<bcfg, bnow, BudgetOthers>>

\* one audited LLM call of the repository, and the budget check after synthesis
LlmCall ==
  /\ bloop.phase = "repo"
  /\ bstate.llmCallsTotal < MaxLlm
  /\ \E promptChars \in {0, 5}, completionChars \in {0, 3} :
       bstate' = ManagerRecordLlmCall(bstate, RepoName(bloop.card), promptChars, completionChars)
  /\ LET repoStop == StopRepoCall(bcfg, bstate', RepoName(bloop.card))
     IN /\ btrace' = [btrace EXCEPT !.repoStopped = @ \/ repoStop]
        /\ bloop' = IF repoStop THEN [bloop EXCEPT !.phase = "cutoff"] ELSE bloop
  /\ UNCHANGED <<bcfg, bnow, BudgetOthers>>

\* the repository ends, with a spec, with a failure or in the catch: finishRepo
RepoEnds ==
  /\ bloop.phase \in {"repo", "cutoff"}
  /\ bstate' = ManagerFinishRepo(bstate)
  /\ bloop' = [bloop EXCEPT !.phase = "loop", !.card = @ + 1]
  /\ UNCHANGED <<bcfg, bnow, btrace, BudgetOthers>>

LoopEnds ==
  /\ bloop.phase = "loop"
  /\ bloop.card > bloop.cards
  /\ bloop' = [bloop EXCEPT !.phase = "left"]
  /\ UNCHANGED <<bcfg, bstate, bnow, btrace, BudgetOthers>>

\* shouldStopRun() asked again later in the same run
LaterCall ==
  /\ bloop.phase = "left"
  /\ bloop.later < MaxLaterCalls
  /\ AskStopRun(StopRunCall(Manager, bcfg, bnow))
  /\ bloop' = [bloop EXCEPT !.later = @ + 1]
  /\ UNCHANGED <<bcfg, bnow, BudgetOthers>>

BudgetNext ==
  \/ Tick
  \/ RepoFinderAsks
  \/ LoopTop
  \/ LlmCall
  \/ RepoEnds
  \/ LoopEnds
  \/ LaterCall

BudgetSpec == BudgetInit /\ [][BudgetNext]_vars

----------------------------------------------------------------------------
(* specs/index.json over the runs of the miner: every run starts from an   *)
(* empty state.index (run.ts createInitialState), the deduper loads, marks *)
(* and saves the file, llm_spec_generator saves state.index when a spec    *)
(* succeeded, and an enabled regression suite then runs its repositories   *)
(* through a graph of their own in bridge_only mode.                       *)

\* config.regression: not enabled, or enabled with its runMode
RegressionModes == {"off", "bridge_only", "full"}
RunConfigs ==
  [allowRefresh : BOOLEAN, regression : RegressionModes, maxNewReposPerRun : {1, MaxCands}]

FullNames(cs) == {cs[i].full_name : i \in 1..Len(cs)}

\* { ...current, last_spec_path }: a comparison with the last_pushed_at of an
\* entry that was never marked seen is false
updateIndexSpecPath(index, repoFullName) ==
  [index EXCEPT ![repoFullName] =
     <<[last_pushed_at |-> IF @ = NoParam THEN MaxPushed + 1 ELSE @[1].last_pushed_at,
        last_run_id |-> IF @ = NoParam THEN 0 ELSE @[1].last_run_id]>>]

RECURSIVE SpecPaths(_, _)
SpecPaths(index, names) ==
  IF names = {} THEN index
  ELSE LET n == CHOOSE n \in names : TRUE
       IN SpecPaths(updateIndexSpecPath(index, n), names \ {n})

IndexInit ==
  /\ IndexAlone
  /\ xfile = createEmptyIndex
  /\ xrun = [phase |-> "idle"]
  /\ xhist = <<>>

\* createInitialState and repo_finder
RunStarts ==
  /\ xrun.phase = "idle"
  /\ Len(xhist) < MaxRuns
  /\ \E config \in RunConfigs, cs \in CandidateLists :
       xrun' = [phase |-> "deduper", config |-> config, candidates |-> cs,
                index |-> createEmptyIndex, new_candidates |-> <<>>]
  /\ UNCHANGED <<xfile, xhist, IndexOthers>>

DeduperRecord(kept) ==
  [names |-> FullNames(xrun.candidates), kept |-> FullNames(kept),
   allowRefresh |-> xrun.config.allowRefresh, regression |-> xrun.config.regression]

IndexDeduperBypass ==
  /\ xrun.phase = "deduper"
  /\ xrun.config.regression = "bridge_only"
  /\ xrun' = [xrun EXCEPT !.phase = "generator", !.new_candidates = xrun.candidates]
  /\ xhist' = Append(xhist, DeduperRecord(xrun.candidates))
  /\ UNCHANGED <<xfile, IndexOthers>>

IndexDeduper ==
  /\ xrun.phase = "deduper"
  /\ xrun.config.regression # "bridge_only"
  /\ LET kept == Kept(xfile, xrun.config, xrun.candidates)
         index == SeenAll(xfile, xrun.candidates, Len(xhist) + 1)
     IN /\ xfile' = index
        /\ xrun' = [xrun EXCEPT !.phase = "generator", !.index = index,
                                !.new_candidates = kept]
        /\ xhist' = Append(xhist, DeduperRecord(kept))
  /\ UNCHANGED IndexOthers

\* llm_spec_generator: the repositories of ok got a spec, the others failed or
\* were not reached; if (specsSucceeded > 0) saveIndex(index)
IndexGenerator ==
  /\ xrun.phase = "generator"
  /\ \E ok \in SUBSET FullNames(xrun.new_candidates) :
       LET index == SpecPaths(xrun.index, ok)
       IN /\ xrun' = [xrun EXCEPT !.phase = IF xrun.config.regression = "off" THEN "idle"
                                            ELSE "regression",
                                  !.index = index]
          /\ xfile' = IF ok # {} THEN index ELSE xfile
  /\ UNCHANGED <<xhist, IndexOthers>>

\* runOneRepo of the regression suite: a graph in bridge_only mode on a new
\* initial state; the deduper is bypassed and the generator saves on success
RegressionRun ==
  /\ xrun.phase = "regression"
  /\ \E repo \in RepoNames, ok \in BOOLEAN :
       xfile' = IF ok THEN SpecPaths(createEmptyIndex, {repo}) ELSE xfile
  /\ xrun' = [phase |-> "idle"]
  /\ UNCHANGED <<xhist, IndexOthers>>

IndexNext ==
  \/ RunStarts
  \/ IndexDeduperBypass
  \/ IndexDeduper
  \/ IndexGenerator
  \/ RegressionRun

IndexSpec == IndexInit /\ [][IndexNext]_vars

----------------------------------------------------------------------------
(* Vocabulary of the properties.                                           *)

Done == pc = "done"
Succeeded == pc = "done" /\ result.ok
Failed == pc = "done" /\ ~result.ok

LastStage == stages[Len(stages)]
HasStageNamed(name) == \E i \in 1..Len(stages) : stages[i].name = name
HasErrorCode(code) == \E i \in 1..Len(stages) : stages[i].error_code = code
RepairStageCount == Cardinality({i \in 1..Len(stages) : stages[i].name = "repair"})

\* every id written in any citation list of doc, whatever key it is under
AllListIds(doc) ==
  Range(doc.citations.app) \cup Range(doc.citations.core_loop)
    \cup UNION {UNION {Range(doc.citations[sec][k]) : k \in DOMAIN doc.citations[sec]} :
                  sec \in SectionSet}

\* some required citation key of doc has no citation
RequiredKeyEmpty(doc) ==
  \/ doc.citations.app = <<>>
  \/ doc.citations.core_loop = <<>>
  \/ \E sec \in SectionSet : \E i \in 1..Len(EntityKeys(doc, sec)) :
       Get(doc.citations[sec], EntityKeys(doc, sec)[i]) = <<>>

\* stages i and i+1 are an evidence gate and a quality gate that both passed
GatePairOkAt(i) ==
  /\ i + 1 <= Len(stages)
  /\ stages[i].name = "evidence_gate" /\ stages[i].ok
  /\ stages[i + 1].name = "quality_gate" /\ stages[i + 1].ok

\* the step in which an awaited repair call settles
RepairSettles == pc = "repair" /\ Len(stages') = Len(stages) + 1
FailedRepairStep == RepairSettles /\ ~stages'[Len(stages')].ok
IsPatch(r) == "patch" \in DOMAIN r

----------------------------------------------------------------------------
(* C1: whenever runBridge returns ok=true, every evidence id cited under    *)
(* any citation key of the returned document is in allowedEvidenceIds.      *)
C1_Grounded ==
  Succeeded => AllListIds(result.canonical) \subseteq Range(params.allowedEvidenceIds)

\* a success reached after a rejected patch and a merged one, under an
\* allow-list that excludes some id
C1_Witness ==
  /\ Succeeded
  /\ Range(params.allowedEvidenceIds) # Ids
  /\ HasErrorCode("REPAIR_PATCH_UNKNOWN_ID")
  /\ \E i \in 1..Len(stages) : stages[i].name = "repair" /\ stages[i].ok
  /\ AllListIds(result.canonical) # {}

(* C2: runBridge returns ok=true only when both gates have just passed on   *)
(* the document it returns, and it returns at the first attempt at which    *)
(* both pass; without any repair, attempts_used is 0 and no repair stage    *)
(* is in the report.                                                        *)
C2_SuccessIffGatesPass ==
  /\ Succeeded =>
       /\ Len(stages) >= 2
       /\ GatePairOkAt(Len(stages) - 1)
       /\ stages[Len(stages) - 1].stats.attempt = final.attempts_used
       /\ LastStage.stats.attempt = final.attempts_used
       /\ AllListIds(result.canonical) \subseteq Range(params.allowedEvidenceIds)
       /\ qualityGate(result.canonical, qualityConfig).ok
       /\ result.canonical = canonical
       /\ final.attempts_used = RepairStageCount
       /\ (final.attempts_used = 0 <=> ~HasStageNamed("repair"))
  /\ \A i \in 1..Len(stages) : GatePairOkAt(i) => Succeeded /\ i + 1 = Len(stages)

\* a success at a later attempt: the gates failed before and a repair was merged
C2_Witness ==
  /\ Succeeded
  /\ final.attempts_used > 0
  /\ \E i \in 1..Len(stages) : stages[i].name = "quality_gate" /\ ~stages[i].ok

(* C3: a failed parse, wire_validate or canonical_validate stage ends the   *)
(* run at once: ok=false, that stage with its error code is the last stage, *)
(* attempts_used = 0, no gate or repair stage exists and Patch Repair was   *)
(* never called.                                                            *)
StructuralCode(name) ==
  CASE name = "parse" -> "PARSE_FAILED"
    [] name = "wire_validate" -> "WIRE_VALIDATE_FAILED"
    [] name = "canonical_validate" -> "CANONICAL_VALIDATE_FAILED"

StructuralFailureAt(i) ==
  stages[i].name \in {"parse", "wire_validate", "canonical_validate"} /\ ~stages[i].ok

C3_StructuralFailureIsTerminal ==
  /\ \A i \in 1..Len(stages) :
       StructuralFailureAt(i) =>
         /\ Failed
         /\ i = Len(stages)
         /\ stages[i].error_code = StructuralCode(stages[i].name)
         /\ final.attempts_used = 0
         /\ ~HasStageNamed("evidence_gate") /\ ~HasStageNamed("quality_gate")
         /\ ~HasStageNamed("repair")
         /\ repairCalls = 0
  /\ (pc # "parse" /\ ~params.wireRaw.parses) =>
       Failed /\ LastStage.error_code = "PARSE_FAILED"
  /\ (pc \notin {"parse", "wire_validate"} /\ params.wireRaw.parses /\ ~params.wireRaw.wireValid) =>
       Failed /\ LastStage.error_code = "WIRE_VALIDATE_FAILED"
  /\ (pc \notin {"parse", "wire_validate", "normalize", "canonical_validate"}
        /\ params.wireRaw.wireValid /\ params.wireRaw.normalized \in InvalidDocs) =>
       Failed /\ LastStage.error_code = "CANONICAL_VALIDATE_FAILED"

\* the canonical schema rejected the normalized document
C3_Witness ==
  /\ Failed
  /\ LastStage.name = "canonical_validate" /\ ~LastStage.ok
  /\ HasStageNamed("normalize")

(* C4: runBridge terminates on every input and every behaviour of the       *)
(* repair collaborator; it calls Patch Repair at most maxRepairAttempts     *)
(* times and attempts_used never exceeds maxRepairAttempts.                 *)
C4_BoundedAndTerminates ==
  /\ [](/\ repairCalls <= maxRepairAttempts
        /\ RepairStageCount <= maxRepairAttempts
        /\ final.attempts_used <= maxRepairAttempts
        /\ attempt <= maxRepairAttempts)
  /\ <>Done

\* every allowed repair call was made, one threw and one returned unknown ids
C4_Witness ==
  /\ Failed
  /\ maxRepairAttempts = DefaultMaxRepairAttempts
  /\ repairCalls = maxRepairAttempts
  /\ HasErrorCode("REPAIR_PATCH_FAILED")
  /\ HasErrorCode("REPAIR_PATCH_UNKNOWN_ID")

(* C5, as claimed: a failed repair (unknown id in the patch, or a throw)    *)
(* leaves the attempt counter where it was.                                 *)
C5_Original == [][FailedRepairStep => attempt' = attempt]_vars

(* C5, amended: a failed repair records a failed repair stage with attempt  *)
(* index attempt + 1, leaves the candidate unchanged and advances the       *)
(* attempt counter by one, as a merged patch does; the gates that run next  *)
(* carry the advanced index.                                                *)
C5_FailedRepairUsesAttempt ==
  [][/\ FailedRepairStep =>
          /\ attempt' = attempt + 1
          /\ canonical' = canonical
          /\ stages'[Len(stages')].name = "repair"
          /\ stages'[Len(stages')].stats.attempt = attempt + 1
          /\ pc' = "gates"
     /\ RepairSettles => attempt' = attempt + 1
     /\ (pc = "gates" /\ Len(stages') = Len(stages) + 2) =>
          /\ stages'[Len(stages')].stats.attempt = attempt
          /\ stages'[Len(stages') - 1].stats.attempt = attempt
          /\ final'.attempts_used = attempt]_vars

\* the state right after a repair call threw
C5_Witness ==
  /\ pc = "gates"
  /\ repaired = [threw |-> TRUE]
  /\ attempt >= 1
  /\ LastStage.error_code = "REPAIR_PATCH_FAILED"

(* C6: a repair patch that contains an id outside the allow-list is not     *)
(* merged at all: the candidate after the round equals the candidate        *)
(* before it, and the round is recorded as a failed repair.                 *)
C6_UnknownPatchNotMerged ==
  [][(RepairSettles /\ IsPatch(repaired')
        /\ ~(PatchIds(repaired'.patch) \subseteq Range(params.allowedEvidenceIds))) =>
       /\ canonical' = canonical
       /\ stages'[Len(stages')].error_code = "REPAIR_PATCH_UNKNOWN_ID"
       /\ ~stages'[Len(stages')].ok]_vars

\* a rejected patch that held allowed ids next to unknown ones
C6_Witness ==
  /\ pc = "gates"
  /\ IsPatch(repaired)
  /\ PatchIds(repaired.patch) \cap Range(params.allowedEvidenceIds) # {}
  /\ PatchIds(repaired.patch) \ Range(params.allowedEvidenceIds) # {}

(* C7: applyCitationsPatch(doc, patch) returns a document whose every      *)
(* non-citation field equals that of doc, and leaves its argument doc as   *)
(* it was.                                                                 *)
Returned == ppc = "returned"

C7_PatchIsolation ==
  Returned =>
    /\ DOMAIN pout.out = DOMAIN pdoc
    /\ \A f \in (DOMAIN pdoc) \ {"citations"} : pout.out[f] = pdoc[f]
    /\ pout.arg = pdoc

\* a call whose patch changed the citations
C7_Witness ==
  /\ Returned
  /\ pout.out.citations # pdoc.citations
  /\ Len(pdoc.screens) > 1

(* C8: for every citation key present in the patch, applyCitationsPatch     *)
(* replaces the document's list by the deduplicated, sorted patch list      *)
(* (the previous ids are dropped, not united); every key absent from the    *)
(* patch keeps its list, and no other key appears.                          *)
\* l is the deduplicated sorted form of ids
IsSortedDedupOf(l, ids) == IsSortedUnique(l) /\ Range(l) = Range(ids)

PatchedNames(sec) == IF sec \in DOMAIN ppatch THEN DOMAIN ppatch[sec] ELSE {}

C8_ReplaceNotUnion ==
  Returned =>
    /\ \A f \in {"app", "core_loop"} :
         IF f \in DOMAIN ppatch
           THEN IsSortedDedupOf(pout.out.citations[f], ppatch[f])
           ELSE pout.out.citations[f] = pdoc.citations[f]
    /\ \A sec \in SectionSet :
         /\ DOMAIN pout.out.citations[sec] = (DOMAIN pdoc.citations[sec]) \cup PatchedNames(sec)
         /\ \A k \in DOMAIN pout.out.citations[sec] :
              IF k \in PatchedNames(sec)
                THEN IsSortedDedupOf(pout.out.citations[sec][k], ppatch[sec][k])
                ELSE pout.out.citations[sec][k] = pdoc.citations[sec][k]

\* a patch list with a repeated or unsorted id replaces a cited list it does
\* not contain, while another key of the same section is absent from the patch
C8_Witness ==
  /\ Returned
  /\ \E sec \in SectionSet \cap DOMAIN ppatch :
       /\ \E k \in DOMAIN ppatch[sec] \cap DOMAIN pdoc.citations[sec] :
            /\ pdoc.citations[sec][k] # <<>>
            /\ ~(Range(pdoc.citations[sec][k]) \subseteq Range(ppatch[sec][k]))
            /\ ~IsSortedUnique(ppatch[sec][k])
       /\ \E k \in DOMAIN pdoc.citations[sec] :
            k \notin DOMAIN ppatch[sec] /\ pdoc.citations[sec][k] # <<>>

(* C9, as claimed: whenever the evidence gate finds unknown ids at an       *)
(* attempt below maxRepairAttempts, the bridge calls Patch Repair instead   *)
(* of returning.                                                            *)
UnknownAtGates ==
  /\ pc = "gates"
  /\ ~(AllListIds(canonical) \subseteq Range(params.allowedEvidenceIds))
  /\ attempt < maxRepairAttempts

C9_Original == [][UnknownAtGates => pc' = "repair"]_vars

(* C9, amended: whenever the evidence gate finds unknown ids at an attempt  *)
(* below maxRepairAttempts and some required citation key is empty, the     *)
(* bridge calls Patch Repair instead of returning; when no required key is  *)
(* empty it returns the failure "evidence gate failed" without a repair.    *)
C9_RepairWhenKeysMissing ==
  [][UnknownAtGates =>
       IF RequiredKeyEmpty(canonical)
         THEN pc' = "repair" /\ repairCalls' = repairCalls + 1
         ELSE /\ pc' = "done" /\ ~result'.ok
              /\ final'.reason = "evidence gate failed"
              /\ repairCalls' = repairCalls]_vars

\* a repair call is awaited for a candidate that cites an unknown id
C9_Witness ==
  /\ pc = "repair"
  /\ ~(AllListIds(canonical) \subseteq Range(params.allowedEvidenceIds))
  /\ ~stages[Len(stages) - 1].ok

(* C10, as claimed: every report runBridge returns has attempts_used,       *)
(* coverage_ratio, unknown_ids_count and empty_fields_count defined.        *)
FinalCounts == {"attempts_used", "coverage_ratio", "unknown_ids_count", "empty_fields_count"}

C10_Original == Done => FinalCounts \subseteq DOMAIN final

(* C10, amended: every report has attempts_used defined; a report of a run  *)
(* that reached the gates has all four fields defined (on a failure the    *)
(* counts of its last gate stages, on a success both counts 0); a report   *)
(* of a parse, wire_validate or canonical_validate failure has             *)
(* attempts_used = 0 and none of the other three.                          *)
C10_CountsWhenGatesReached ==
  Done =>
    /\ "attempts_used" \in DOMAIN final
    /\ IF HasStageNamed("evidence_gate")
         THEN /\ FinalCounts \subseteq DOMAIN final
              /\ final.unknown_ids_count = stages[Len(stages) - 1].stats.unknown_ids_count
              /\ final.empty_fields_count =
                   IF result.ok THEN 0 ELSE LastStage.stats.empty_fields
              /\ final.coverage_ratio = LastStage.stats.ratio
              /\ final.attempts_used = LastStage.stats.attempt
         ELSE FinalCounts \cap DOMAIN final = {"attempts_used"} /\ final.attempts_used = 0

\* a gate failure with unknown ids and empty fields, after a repair round
C10_Witness ==
  /\ Failed
  /\ HasStageNamed("repair")
  /\ final.unknown_ids_count > 0
  /\ final.empty_fields_count > 0


----------------------------------------------------------------------------
(* Properties of the schema-v3 bridge and normalizer.                      *)

V3Done == v3pc = "done"

V3HasStageNamed(name) == \E i \in 1..Len(v3stages) : v3stages[i].name = name

\* the run parsed its input and the wire schema accepted it
V3WireValid ==
  \E i \in 1..Len(v3stages) : v3stages[i].name = "wire_validate" /\ v3stages[i].ok

(* C11: for a wire document that parses and passes wire validation,         *)
(* runBridge returns ok = true with a canonical document of schema_version  *)
(* 3, and its report contains no stage named cover.                         *)
C11_WireValidRunSucceeds ==
  (V3Done /\ V3WireValid) =>
    /\ v3result.ok
    /\ v3result.canonical.schema_version = 3
    /\ ~V3HasStageNamed("cover")


Normalized == normalized # NoDoc

Canonical == normalized.canonical

Fixes == normalized.normalize_report.fixes

Distinct(s) == \A i, j \in 1..Len(s) : i # j => s[i] # s[j]

NamesOf(items) == [i \in 1..Len(items) |-> items[i].name]

CountWhere(s, P(_)) == Cardinality({i \in 1..Len(s) : P(s[i])})

Suffixed(base, n) == base \o "_" \o ToString(n)

\* the items of a section of the wire document, each an object tagged with
\* its position in `field`
TaggedItems(items, field) ==
  /\ items # <<>>
  /\ \A i \in 1..Len(items) :
       /\ items[i].t = "object"
       /\ field \in DOMAIN items[i].o
       /\ items[i].o[field] = Tag(i)

\* the name an item has before the renaming: its own, or the default one
PrevNames(items, fallback) ==
  [i \in 1..Len(items) |->
     IF "name" \in DOMAIN items[i] /\ trim(items[i].name) # "" THEN items[i].name
     ELSE fallback \o ToString(i)]

\* the name the output gives to the item Tagged(_) picks out
FinalNames(n, out, Tagged(_, _)) ==
  [i \in 1..n |-> (CHOOSE x \in Range(out) : Tagged(x, i)).name]

\* every input item is found in the output, once
FoundOnce(n, out, Tagged(_, _)) ==
  /\ Len(out) = n
  /\ \A i \in 1..n : Cardinality({k \in 1..Len(out) : Tagged(out[k], i)}) = 1

\* the rename notes of a section are those of its renamed items
OneNotePerRename(prefix, prev, given) ==
  /\ \A i \in 1..Len(prev) :
       prev[i] # given[i] => \E k \in 1..Len(Fixes) : Fixes[k] = prefix \o prev[i] \o "->" \o given[i]
  /\ CountWhere(Fixes, LAMBDA note : startsWith(note, prefix))
       = Cardinality({i \in 1..Len(prev) : prev[i] # given[i]})

\* the claim's rule: a name not met before is kept, a name met before gets the
\* smallest free suffix
FirstOccurrenceKeeps(prev, given) ==
  \A i \in 1..Len(prev) :
    LET earlier == {given[j] : j \in 1..(i - 1)}
    IN IF \A j \in 1..(i - 1) : prev[j] # prev[i] THEN given[i] = prev[i]
       ELSE \E n \in 2..(Len(prev) + 1) :
              /\ given[i] = Suffixed(prev[i], n)
              /\ \A m \in 2..(n - 1) : Suffixed(prev[i], m) \in earlier

\* the rule of uniqueName: the trimmed name ("item" for a blank one) is kept
\* unless an earlier item was given it, and then gets the smallest free suffix
UnassignedKeeps(prev, given) ==
  \A i \in 1..Len(prev) :
    LET base == IF trim(prev[i]) # "" THEN trim(prev[i]) ELSE "item"
        earlier == {given[j] : j \in 1..(i - 1)}
    IN IF base \notin earlier THEN given[i] = base
       ELSE \E n \in 2..(Len(prev) + 1) :
              /\ given[i] = Suffixed(base, n)
              /\ given[i] \notin earlier
              /\ \A m \in 2..(n - 1) : Suffixed(base, m) \in earlier

AllNamesDistinct ==
  /\ Distinct(NamesOf(Canonical.screens))
  /\ Distinct(NamesOf(Canonical.rust_commands))
  /\ Distinct(NamesOf(Canonical.data_model.tables))
  /\ \A t \in Range(Canonical.data_model.tables) : Distinct(NamesOf(t.columns))

ByPurpose(x, i) == x.purpose = Tag(i)
ByColumn(x, i) == x.columns[1].name = Tag(i)
TagColumnTypes == <<"INTEGER", "REAL", "BOOLEAN", "BLOB">>
ByType(x, i) == x.type = TagColumnTypes[i]

WireScreens == IF "screens" \in DOMAIN wire THEN wire.screens ELSE <<>>
WireCommands == IF "rust_commands" \in DOMAIN wire THEN wire.rust_commands ELSE <<>>
WireTables ==
  IF "data_model" \in DOMAIN wire /\ "tables" \in DOMAIN wire.data_model
  THEN wire.data_model.tables ELSE <<>>

\* Rule(prev, given) holds of every section whose items are tagged
RenamedBy(Rule(_, _)) ==
  /\ TaggedItems(WireScreens, "purpose") =>
       LET Check(prev, out) ==
             /\ FoundOnce(Len(prev), out, ByPurpose)
             /\ Rule(prev, FinalNames(Len(prev), out, ByPurpose))
             /\ OneNotePerRename("rule:name_unique:screens:", prev,
                                 FinalNames(Len(prev), out, ByPurpose))
       IN Check(PrevNames([i \in 1..Len(WireScreens) |-> WireScreens[i].o], "Screen "),
                Canonical.screens)
  /\ TaggedItems(WireCommands, "purpose") =>
       LET Check(prev, out) ==
             /\ FoundOnce(Len(prev), out, ByPurpose)
             /\ Rule(prev, FinalNames(Len(prev), out, ByPurpose))
             /\ OneNotePerRename("rule:name_unique:rust_commands:", prev,
                                 FinalNames(Len(prev), out, ByPurpose))
       IN Check(PrevNames([i \in 1..Len(WireCommands) |-> WireCommands[i].o],
                          "cmd_"),
                Canonical.rust_commands)
  /\ (/\ WireTables # <<>>
      /\ \A i \in 1..Len(WireTables) :
        /\ WireTables[i].t = "object"
        /\ "fields" \in DOMAIN WireTables[i].o
        /\ WireTables[i].o.fields[1].name = Tag(i)) =>
       LET Check(prev, out) ==
             /\ FoundOnce(Len(prev), out, ByColumn)
             /\ Rule(prev, FinalNames(Len(prev), out, ByColumn))
             /\ OneNotePerRename("rule:name_unique:tables:", prev,
                                 FinalNames(Len(prev), out, ByColumn))
       IN Check(PrevNames([i \in 1..Len(WireTables) |->
                             WireTables[i].o], "table_"),
                Canonical.data_model.tables)
  /\ (\E cols \in ColumnSeqs :
        cols # <<>> /\ WireTables = <<Obj([name |-> "t", columns |-> cols])>>) =>
       LET Check(prev, out) ==
             /\ FoundOnce(Len(prev), out, ByType)
             /\ Rule(prev, FinalNames(Len(prev), out, ByType))
             /\ OneNotePerRename("rule:name_unique:columns:t.", prev,
                                 FinalNames(Len(prev), out, ByType))
       IN Check([i \in 1..Len(WireTables[1].o.columns) |->
                   IF "name" \in DOMAIN WireTables[1].o.columns[i]
                      /\ trim(WireTables[1].o.columns[i].name) # ""
                   THEN WireTables[1].o.columns[i].name ELSE "field"],
                Canonical.data_model.tables[1].columns)

(* C12, as claimed: after normalizeWireToCanonical the names of the screens, *)
(* of the commands, of the tables and of the columns of each table are      *)
(* pairwise distinct; in input order, the first occurrence of a name keeps  *)
(* it and a later colliding one gets the smallest unused suffix _2, _3,     *)
(* ...; fixes holds one rename note per renamed item.                       *)
C12_Original == Normalized => AllNamesDistinct /\ RenamedBy(FirstOccurrenceKeeps)

(* C12, amended: the names are pairwise distinct in each of the four        *)
(* collections; in input order an item keeps its name, trimmed ("item" when *)
(* blank), unless an earlier item was already given that name, and then it  *)
(* gets <name>_n for the smallest n >= 2 that no earlier item was given;    *)
(* fixes holds one rename note per item whose name changed.                 *)
C12_UnassignedNameKept == Normalized => AllNamesDistinct /\ RenamedBy(UnassignedKeeps)

\* three items named a, a, a_2: the third collides with the second's new name
C12_Witness ==
  /\ Normalized
  /\ TaggedItems(WireScreens, "purpose")
  /\ Len(WireScreens) = 3
  /\ NamesOf(Canonical.screens) = <<"a", "a_2", "a_2_2">>
  /\ Canonical.screens[3].purpose = Tag(3)


\* s is in the order of sort((a, b) => a.localeCompare(b))
SortedStrings(s) == \A i \in 1..(Len(s) - 1) : localeCompare(s[i], s[i + 1]) <= 0

\* the items of a tagged section were named in the order of the input
NamedInInputOrder(items, fallback, out, Tagged(_, _)) ==
  LET Check(prev) ==
        /\ FoundOnce(Len(prev), out, Tagged)
        /\ UnassignedKeeps(prev, FinalNames(Len(prev), out, Tagged))
  IN Check(PrevNames([i \in 1..Len(items) |-> items[i].o], fallback))

(* C13: in every output of normalizeWireToCanonical the screens, the        *)
(* commands and the tables are sorted by name and mvp_plan and              *)
(* acceptance_tests are sorted as strings, whatever the order of the input; *)
(* the names are made unique in input order, before the sort.               *)
C13_SortedAfterRenaming ==
  Normalized =>
    /\ SortedStrings(NamesOf(Canonical.screens))
    /\ SortedStrings(NamesOf(Canonical.rust_commands))
    /\ SortedStrings(NamesOf(Canonical.data_model.tables))
    /\ SortedStrings(Canonical.mvp_plan)
    /\ SortedStrings(Canonical.acceptance_tests)
    /\ TaggedItems(WireScreens, "purpose") =>
         NamedInInputOrder(WireScreens, "Screen ", Canonical.screens, ByPurpose)
    /\ TaggedItems(WireCommands, "purpose") =>
         NamedInInputOrder(WireCommands, "cmd_", Canonical.rust_commands, ByPurpose)
    /\ (/\ WireTables # <<>>
        /\ \A i \in 1..Len(WireTables) :
             /\ WireTables[i].t = "object"
             /\ "fields" \in DOMAIN WireTables[i].o
             /\ WireTables[i].o.fields[1].name = Tag(i)) =>
         NamedInInputOrder(WireTables, "table_", Canonical.data_model.tables, ByColumn)

\* screens named a_2, a, a: the second comes first, the third is named a_3
C13_Witness ==
  /\ Normalized
  /\ TaggedItems(WireScreens, "purpose")
  /\ NamesOf(Canonical.screens) = <<"a", "a_2", "a_3">>
  /\ [i \in 1..3 |-> Canonical.screens[i].purpose] = <<Tag(2), Tag(1), Tag(3)>>


IoVocabulary ==
  {"string", "boolean", "int", "float", "timestamp", "json",
   "string?", "boolean?", "int?", "float?", "timestamp?", "json?"}

Sentinels == {"placeholder", "todo", "tbd", "example", "dummy", "mock"}

WellFormedSide(dict) ==
  /\ DOMAIN dict # {}
  /\ \A k \in DOMAIN dict :
       /\ toLowerCase(k) \notin Sentinels
       /\ k # "request"
       /\ dict[k] \in IoVocabulary

(* C14: for every command of every output of normalizeWireToCanonical,      *)
(* input and output are non-empty dictionaries, no key is a placeholder     *)
(* sentinel (in any case) or the wrapper key request, and every value is    *)
(* one of string, boolean, int, float, timestamp, json, optionally followed *)
(* by ?; whatever the wire held for them and whatever the columns of the    *)
(* first table are named.                                                   *)
C14_CommandIOWellFormed ==
  Normalized =>
    \A c \in Range(Canonical.rust_commands) :
      WellFormedSide(c.input) /\ WellFormedSide(c.output)

\* an input made of a placeholder key only, beside a first table whose columns
\* are named like placeholders: the input falls back to the payload
C14_Witness ==
  /\ Normalized
  /\ WireCommands # <<>>
  /\ WireCommands[1].t = "object"
  /\ Prop(WireCommands[1].o, "input") = Obj([placeholder |-> Bool(TRUE)])
  /\ Prop(WireCommands[1].o, "output") = Undefined
  /\ WireTables = <<Obj([name |-> "t",
                         columns |-> <<[name |-> "todo", type |-> "int"],
                                       [name |-> "Mock", type |-> "bool"]>>])>>
  /\ Canonical.rust_commands[1].input = [payload |-> "json"]


Renormalized == renormalized # NoDoc

(* C15: normalization is idempotent: normalizeWireToCanonical applied to    *)
(* its own canonical output, passed as the wire document, returns the same  *)
(* canonical document and records no further rename.                        *)
C15_Idempotent ==
  Renormalized =>
    /\ renormalized.canonical = normalized.canonical
    /\ \A k \in 1..Len(renormalized.normalize_report.fixes) :
         ~startsWith(renormalized.normalize_report.fixes[k], "rule:name_unique:")


(* C16: for every document the wire schema accepts, the canonical document  *)
(* normalizeWireToCanonical returns is accepted by the canonical schema,    *)
(* so that the canonical_validate stage of runBridge never fails.           *)
C16_NormalizedIsSchemaValid ==
  /\ v3normalized # NoDoc => CanonicalSpecSchema(ToJson(v3normalized.canonical))
  /\ \A i \in 1..Len(v3stages) : v3stages[i].name = "canonical_validate" => v3stages[i].ok


\* the document a parse was asked for has one of the defects of the claim
Defective == sdoc.kind \in {"missing", "wrong_type", "io_type", "column_type"}

(* C17: canonical validation rejects a document that misses a required      *)
(* field, has a field of the wrong type, has a command input/output value   *)
(* outside string|boolean|int|float|timestamp|json (optionally followed by  *)
(* ?), or has a column type outside TEXT|INTEGER|REAL|BOOLEAN|BLOB|JSON|    *)
(* DATETIME.                                                                *)
C17_DefectiveRejected == (sout # NoDoc /\ Defective) => ~sout.accepted


\* the wire document has the one table t with the one column c
OneColumn ==
  /\ WireTables # <<>>
  /\ WireTables[1].t = "object"
  /\ "columns" \in DOMAIN WireTables[1].o
  /\ Len(WireTables) = 1 /\ Len(WireTables[1].o.columns) = 1
  /\ Opt(WireTables[1].o.columns[1], "name") = <<"c">>

\* the type the wire gives to that column: <<string>>, or <<>> for none
RawColumnType == Opt(WireTables[1].o.columns[1], "type")

\* the type the canonical document gives to it
ColumnTypeOut == Canonical.data_model.tables[1].columns[1].type

\* the synonym table
TableType(text) ==
  IF text \in IntegerSynonyms THEN "INTEGER"
  ELSE IF text \in RealSynonyms THEN "REAL"
  ELSE IF text \in BooleanSynonyms THEN "BOOLEAN"
  ELSE IF text \in BlobSynonyms THEN "BLOB"
  ELSE IF text \in JsonSynonyms THEN "JSON"
  ELSE IF text \in DatetimeSynonyms THEN "DATETIME"
  ELSE "TEXT"

AllColumnTypesInVocabulary ==
  \A t \in Range(Canonical.data_model.tables) : \A c \in Range(t.columns) : c.type \in ColumnTypes

(* C18, as claimed: a raw column type, trimmed and in lower case, is mapped *)
(* to the type the synonym table gives it; a value outside the table, a     *)
(* non-string and a type string ending in ? are mapped to TEXT; every       *)
(* column type of a normalized document is one of TEXT, INTEGER, REAL,      *)
(* BOOLEAN, BLOB, JSON, DATETIME.                                           *)
C18_Original ==
  Normalized =>
    /\ AllColumnTypesInVocabulary
    /\ OneColumn =>
         LET Mapped(text) ==
               ColumnTypeOut =
                 IF RawColumnType = <<>> \/ endsWith(text, "?") \/ text \notin Synonyms
                 THEN "TEXT" ELSE TableType(text)
         IN Mapped(IF RawColumnType = <<>> THEN "" ELSE toLowerCase(trim(RawColumnType[1])))

(* C18, amended: a raw column type, trimmed and in lower case, is mapped to *)
(* the type the synonym table gives it (the table lists string? under       *)
(* JSON); outside the table, a string starting with array< is mapped to     *)
(* JSON and every other value, a non-string or a string ending in ?         *)
(* included, to TEXT; every column type of a normalized document is one of  *)
(* the seven.                                                               *)
C18_SynonymsThenArrayThenText ==
  Normalized =>
    /\ AllColumnTypesInVocabulary
    /\ OneColumn =>
         LET Mapped(text) ==
               ColumnTypeOut =
                 IF RawColumnType = <<>> THEN "TEXT"
                 ELSE IF text \in Synonyms THEN TableType(text)
                 ELSE IF startsWith(text, "array<") THEN "JSON"
                 ELSE "TEXT"
         IN Mapped(IF RawColumnType = <<>> THEN "" ELSE toLowerCase(trim(RawColumnType[1])))

\* a type ending in ? that the table lists, written in upper case
C18_Witness ==
  /\ Normalized
  /\ OneColumn
  /\ RawColumnType = <<"STRING?">>
  /\ ColumnTypeOut = "JSON"


----------------------------------------------------------------------------
(* Properties of the gates called on their own.                            *)

EvidenceGateReturned == gout # NoDoc /\ gout.gate = "evidence"
QualityGateReturned == gout # NoDoc /\ gout.gate = "quality"

(* C19: evidenceGate(doc, allowed) returns ok=true iff every id cited under *)
(* any citation key of doc, keys that match no entity included, is in       *)
(* allowed; unknown_ids holds exactly the cited ids that are not in         *)
(* allowed, each once; the call leaves doc and allowed as they were.        *)
C19_UnknownIdsExact ==
  EvidenceGateReturned =>
    /\ gout.result.ok <=> (AllListIds(gdoc) \subseteq Range(gallowed))
    /\ Range(gout.result.unknown_ids) = AllListIds(gdoc) \ Range(gallowed)
    /\ Distinct(gout.result.unknown_ids)
    /\ gout.canonical = gdoc
    /\ gout.allowedEvidenceIds = gallowed

\* an id outside the allow-list is cited twice under a key that matches no
\* screen, and once more under app: it is reported once
C19_Witness ==
  /\ EvidenceGateReturned
  /\ Get(gdoc.citations.screens, OrphanName) = <<2, 2>>
  /\ gdoc.citations.app = <<1, 2>>
  /\ gallowed = <<1, 1>>
  /\ ~gout.result.ok
  /\ gout.result.unknown_ids = <<2>>


\* what the quality gate returned, and the document's required keys
Quality == gout.result
Coverage == gout.result.coverage
TotalKeys(doc) ==
  2 + Len(doc.screens) + Len(doc.rust_commands) + Len(doc.data_model.tables)
    + Len(doc.acceptance_tests)
Uncited(m, key) == key \notin DOMAIN m \/ m[key] = <<>>
UncitedKeys(doc) ==
  (IF doc.citations.app = <<>> THEN {"app"} ELSE {})
    \cup (IF doc.citations.core_loop = <<>> THEN {"core_loop"} ELSE {})
    \cup {"screen:" \o doc.screens[i].id :
            i \in {j \in 1..Len(doc.screens) :
                     Uncited(doc.citations.screens, doc.screens[j].id)}}
    \cup {"command:" \o doc.rust_commands[i].name :
            i \in {j \in 1..Len(doc.rust_commands) :
                     Uncited(doc.citations.commands, doc.rust_commands[j].name)}}
    \cup {"table:" \o doc.data_model.tables[i].name :
            i \in {j \in 1..Len(doc.data_model.tables) :
                     Uncited(doc.citations.tables, doc.data_model.tables[j].name)}}
    \cup {"acceptance_test:" \o ToString(i - 1) :
            i \in {j \in 1..Len(doc.acceptance_tests) :
                     Uncited(doc.citations.acceptance_tests, ToString(j - 1))}}

\* total, cited and empty_fields are counted as the claim says
CountsRequiredKeys ==
  /\ Coverage.total = TotalKeys(gdoc)
  /\ Range(Quality.empty_fields) = UncitedKeys(gdoc)
  /\ Distinct(Quality.empty_fields)
  /\ Coverage.cited = Coverage.total - Cardinality(UncitedKeys(gdoc))

\* 4 of 5 cited with minCoverageRatio 1 gives ok=false, ratio 0.8
FourOfFive ==
  (Coverage.total = 5 /\ Coverage.cited = 4 /\ gconfig.minCoverageRatio = RatioScale) =>
    ~Quality.ok /\ 5 * Coverage.ratio = 4 * RatioScale

AbsDiff(a, b) == IF a >= b THEN a - b ELSE b - a

(* C20, as claimed: qualityGate counts one required key for app, one for   *)
(* core_loop and one per screen, command, table and acceptance-test index; *)
(* cited is the number of those with a citation, ratio = cited/total; ok   *)
(* is false iff (requireNonEmpty and a required key is empty) or           *)
(* cited/total < minCoverageRatio; empty_fields lists exactly the required *)
(* keys with no citation.                                                  *)
C20_Original ==
  QualityGateReturned =>
    /\ CountsRequiredKeys
    /\ FourOfFive
    /\ Coverage.ratio * Coverage.total = Coverage.cited * RatioScale
    /\ ~Quality.ok <=>
         \/ gconfig.requireNonEmpty /\ UncitedKeys(gdoc) # {}
         \/ Coverage.cited * RatioScale < gconfig.minCoverageRatio * Coverage.total

(* C20, amended: the counts and empty_fields are as claimed; ratio is      *)
(* cited/total rounded to four decimal places, and ok is false iff         *)
(* (requireNonEmpty and a required key is empty) or that rounded ratio is  *)
(* below minCoverageRatio.                                                 *)
C20_RoundedRatio ==
  QualityGateReturned =>
    /\ CountsRequiredKeys
    /\ FourOfFive
    /\ 2 * AbsDiff(Coverage.ratio * Coverage.total, Coverage.cited * RatioScale)
         <= Coverage.total
    /\ ~Quality.ok <=>
         \/ gconfig.requireNonEmpty /\ UncitedKeys(gdoc) # {}
         \/ Coverage.ratio < gconfig.minCoverageRatio

\* 4 of 6 keys cited and minCoverageRatio 0.6667: the ratio is reported as
\* 0.6667 and the gate passes, though 4/6 is below 0.6667
C20_Witness ==
  /\ QualityGateReturned
  /\ Coverage.total = 6 /\ Coverage.cited = 4
  /\ Quality.empty_fields = <<"core_loop", "command:save">>
  /\ ~gconfig.requireNonEmpty
  /\ gconfig.minCoverageRatio = 6667
  /\ Coverage.ratio = 6667
  /\ Quality.ok


----------------------------------------------------------------------------
(* Properties of classifyFailure.                                          *)

Classified == cout # NoDoc
ContentOrder ==
  <<"EVIDENCE_GATE_UNKNOWN_ID", "QUALITY_GATE_EMPTY_CITATIONS", "QUALITY_GATE_LOW_COVERAGE",
    "BRIDGE_WIRE_INVALID", "BRIDGE_CANONICAL_INVALID", "REPAIR_EXHAUSTED",
    "EVIDENCE_INSUFFICIENT", "UNKNOWN">>
ErrorText == toLowerCase(OrElse(cin.error, ""))
ReportSays(field) == cin.report # NoParam /\ cin.report[1].final[field] # NoParam
\* what each content diagnosis is read from
Evident(kind) ==
  CASE kind = "EVIDENCE_GATE_UNKNOWN_ID" ->
         ReportSays("unknown_ids_count") /\ cin.report[1].final.unknown_ids_count[1] > 0
    [] kind = "QUALITY_GATE_EMPTY_CITATIONS" ->
         ReportSays("empty_fields_count") /\ cin.report[1].final.empty_fields_count[1] > 0
    [] kind = "QUALITY_GATE_LOW_COVERAGE" ->
         ReportSays("coverage_ratio") /\ cin.report[1].final.coverage_ratio[1] < RatioScale
    [] kind = "BRIDGE_WIRE_INVALID" ->
         \/ cin.report # NoParam /\ StageOf("wire_validate", FALSE) \in Range(cin.report[1].stages)
         \/ includes(ErrorText, "wire validation")
    [] kind = "BRIDGE_CANONICAL_INVALID" ->
         \/ cin.report # NoParam
              /\ StageOf("canonical_validate", FALSE) \in Range(cin.report[1].stages)
         \/ includes(ErrorText, "canonical")
    [] kind = "REPAIR_EXHAUSTED" ->
         /\ cin.report # NoParam /\ ~cin.report[1].final.ok
         /\ \E i, j \in 1..Len(cin.report[1].stages) :
              i < j /\ cin.report[1].stages[i].name = "repair"
                    /\ cin.report[1].stages[j].name = "repair"
    [] kind = "EVIDENCE_INSUFFICIENT" ->
         /\ cin.report # NoParam /\ ~cin.report[1].final.ok
         /\ OrElse(cin.gapItersUsed, 0) >= OrElse(cin.maxGapIters, 0)
         /\ OrElse(cin.evidenceAddedTotal, 0) >= 5
    [] kind = "UNKNOWN" -> TRUE

(* C25: classifyFailure returns one of the ten failure kinds for every     *)
(* input: BUDGET_CUTOFF whenever budgetCutoff is set, otherwise            *)
(* FETCH_FAILED whenever the fetch-error flag is set, whatever the bridge  *)
(* report says; any other kind is the first content diagnosis that         *)
(* applies, in the order unknown ids, empty citations, low coverage, wire  *)
(* invalid, canonical invalid, repair exhausted, evidence insufficient,    *)
(* unknown.                                                                *)
C25_FixedPrecedence ==
  Classified =>
    /\ cout.kind \in FailKinds
    /\ cin.budgetCutoff = <<TRUE>> => cout.kind = "BUDGET_CUTOFF"
    /\ (cin.budgetCutoff # <<TRUE>> /\ cin.isFetchError = <<TRUE>>) => cout.kind = "FETCH_FAILED"
    /\ cout.kind \notin {"BUDGET_CUTOFF", "FETCH_FAILED"} =>
         /\ cin.budgetCutoff # <<TRUE>> /\ cin.isFetchError # <<TRUE>>
         /\ \E i \in 1..Len(ContentOrder) :
              /\ cout.kind = ContentOrder[i]
              /\ Evident(ContentOrder[i])
              /\ \A j \in 1..(i - 1) : ~Evident(ContentOrder[j])

\* the fetch flag wins over a report that shows unknown ids
C25_Witness ==
  /\ Classified
  /\ cin.budgetCutoff = <<FALSE>> /\ cin.isFetchError = <<TRUE>>
  /\ Evident("EVIDENCE_GATE_UNKNOWN_ID")
  /\ cout.kind = "FETCH_FAILED"


----------------------------------------------------------------------------
(* The gap loop of llm_spec_generator.                                     *)

\* the step pushes an entry to perRepoGapLoop; the entry and the result pushed
GapRecorded == Len(nout'.per_repo_gap_loop) = Len(nout.per_repo_gap_loop) + 1
NewGapEntry == nout'.per_repo_gap_loop[Len(nout'.per_repo_gap_loop)]
NewSpecResult == nout'.spec_results[Len(nout'.spec_results)]
LastBridgeOk == nhist.lastBridge = <<TRUE>>

\* max(1, min(gapLoop.maxIters, budget.maxGapItersPerRepo)), 1 when disabled
ClaimedMaxIters ==
  IF ~nconfig.gapEnabled THEN 1
  ELSE IF nconfig.budget = NoParam THEN Max(1, nconfig.gapMaxIters)
  ELSE Max(1, Min(nconfig.gapMaxIters, nconfig.budget[1].maxGapItersPerRepo))

\* at most maxIters iterations, one synthesis and one runBridge call in each, and
\* no iteration after an ok bridge
GapLoopBounds ==
  /\ nhist.iters <= ClaimedMaxIters
  /\ nhist.synthCalls <= 1
  /\ nhist.bridgeCalls <= 1
  /\ LastBridgeOk => npc = "finish"

\* C21 as stated: the bounds hold, and every perRepoGapLoop entry has attempts_used
\* = number of iterations started and success = true iff the last bridge
\* returned ok.
C21_Original ==
  /\ []GapLoopBounds
  /\ [][GapRecorded => /\ NewGapEntry.attempts_used = nhist.iters
                       /\ NewGapEntry.success <=> LastBridgeOk]_vars

(* C21: for each repository the gap loop starts at most maxIters iterations  *)
(* (max(1, min(gapLoop.maxIters, budget.maxGapItersPerRepo)), 1 when the gap *)
(* loop is disabled), makes at most one synthesis and one runBridge call per *)
(* iteration and stops at the first ok bridge; the recorded attempts_used is *)
(* the number of iterations started, and success is true iff the last bridge *)
(* returned ok and the canonical document was then written without an        *)
(* exception (the repository's result is ok).                                *)
C21_GapLoop ==
  /\ []GapLoopBounds
  /\ [][GapRecorded => /\ NewGapEntry.attempts_used = nhist.iters
                       /\ NewGapEntry.success <=> (LastBridgeOk /\ NewSpecResult.ok)
                       /\ NewSpecResult.ok => LastBridgeOk]_vars

\* the claim's example: a failure at iteration 1 and success at iteration 2, and a
\* repository whose ok bridge was followed by an exception
C21_Witness ==
  /\ npc = "done"
  /\ Len(nout.per_repo_gap_loop) = 2
  /\ nout.per_repo_gap_loop[1].success /\ nout.per_repo_gap_loop[1].attempts_used = 2
  /\ ~nout.per_repo_gap_loop[2].success
  /\ nout.spec_results[2].error = "report write failed"


\* the LLM calls recorded for the repositories seen so far
RecordedCalls(repo) == CallsOf(nbudget, repo)

(* C22: with the budget enabled, once shouldStopRepo has reported stop for a *)
(* repository no further LLM call (synthesis or patch repair) and no further *)
(* gap-loop iteration is started for it, and the LLM calls recorded for one  *)
(* repository never exceed maxLlmCallsPerRepo.                               *)
C22_BudgetHonoured ==
  BudgetEnabled =>
    /\ ~nhist.llmAfterStop
    /\ ~nhist.iterAfterStop
    /\ \A repo \in DOMAIN nbudget.llmCallsPerRepo :
         RecordedCalls(repo) <= nconfig.budget[1].maxLlmCallsPerRepo


NodeFinished == npc = "done"
\* an ok result with the path of the written document, or a classified failure
IsWrittenResult(r) == r.ok /\ "spec_path" \in DOMAIN r
IsClassifiedFailure(r) ==
  /\ ~r.ok
  /\ {"fail_kind", "fail_message", "hints"} \subseteq DOMAIN r
  /\ r.fail_kind \in FailKinds
ResultsOf(repo) ==
  {i \in 1..Len(nout.spec_results) : nout.spec_results[i].repo = repo}

(* C23: after llm_spec_generator finishes, every repository card it was     *)
(* given has exactly one spec_results entry, ok=true with a spec_path or     *)
(* ok=false with fail_kind, fail_message and hints, also when the run budget *)
(* stops the run before all repositories were reached.                       *)
C23_OneResultPerCard ==
  NodeFinished =>
    \A c \in 1..Len(ncards) :
      /\ Cardinality(ResultsOf(ncards[c])) = 1
      /\ \A i \in ResultsOf(ncards[c]) :
           IsWrittenResult(nout.spec_results[i]) \/ IsClassifiedFailure(nout.spec_results[i])


\* a step in which the processing of the current repository fails: the bridge of
\* the last iteration failed or the synthesis error was the last (FinishFailed),
\* enrichment threw, runBridge threw, a file write threw
RepoFails == EnrichThrows \/ BridgeThrows \/ FinishFailed \/ FinishThrows
\* the failure is recorded for that repository and the loop is at its next card
FailureRecorded ==
  /\ Len(nout'.spec_results) = Len(nout.spec_results) + 1
  /\ NewSpecResult.repo = ncards[nrepo]
  /\ IsClassifiedFailure(NewSpecResult)
  /\ nrepo' = nrepo + 1
  /\ npc' = "repo"
ReturnsOk == NodeFinished => nout.status = <<"ok">>
\* at the end every card after a failed one was processed too
AllAfterFailureProcessed ==
  NodeFinished =>
    \A i \in 1..Len(nout.spec_results) :
      (~nout.spec_results[i].ok /\ i < Len(ncards)) => Len(nout.spec_results) > i

(* C24: a failure while processing one repository (a bridge failure on the   *)
(* last iteration, a synthesis error, an enrichment error or any thrown      *)
(* exception) is recorded as a failed result for that repository and never   *)
(* propagates: the next repository in the list is still processed and the    *)
(* node returns status ok.                                                   *)
C24_FailureIsolated ==
  /\ [][RepoFails => FailureRecorded]_vars
  /\ [](ReturnsOk /\ AllAfterFailureProcessed)


----------------------------------------------------------------------------
(* withRetry.                                                              *)

RetryDone == rpc = "done"
Retriable(error) == RetryOn(rcfg.retryOn, error)
\* the errors after which the operation was invoked again, or will be
RetriedErrors ==
  {i \in 1..Len(rerrors) : i < Len(rerrors) \/ ~RetryDone \/ ~rresult.threw}
RetryEvents == {i \in 1..Len(revents) : revents[i].event = RetryEvent}
IsNetworkOr429Or5xx(error) ==
  \/ error.status = NoParam
  \/ error.status[1] = 429
  \/ error.status[1] \in 500..599

(* C26: withRetry re-invokes the operation after a failure only if          *)
(* retryOn(error) is true and fewer than `retries` retries have been made,   *)
(* so the operation runs at most retries+1 times; a non-retriable error      *)
(* causes exactly one invocation and is rethrown unchanged, and a retriable  *)
(* one is retried until the operation succeeds or the retries are used up.   *)
(* For GitHub requests only network errors, HTTP 429 and HTTP 5xx are        *)
(* retriable: a 401/403/404 response causes exactly one request and no       *)
(* GITHUB_RETRY event.                                                       *)
C26_RetryPolicy ==
  /\ rcalls <= rcfg.retries + 1
  /\ \A i \in RetriedErrors : Retriable(rerrors[i]) /\ i <= rcfg.retries
  /\ Cardinality(RetryEvents) = Cardinality(RetriedErrors)
  /\ (Len(rerrors) >= 1 /\ ~Retriable(rerrors[1])) =>
       /\ rcalls = 1
       /\ RetryDone /\ rresult.threw /\ rresult.error = <<rerrors[1]>>
  /\ (RetryDone /\ rresult.threw) =>
       /\ rresult.error = <<rerrors[Len(rerrors)]>>
       /\ Retriable(rerrors[Len(rerrors)]) => rcalls = rcfg.retries + 1
  /\ (RetryDone /\ ~rresult.threw) => rcalls = Len(rerrors) + 1
  /\ rcfg.github =>
       /\ \A i \in RetriedErrors : IsNetworkOr429Or5xx(rerrors[i])
       /\ (Len(rerrors) >= 1 /\ rerrors[1].status \in {<<401>>, <<403>>, <<404>>}) =>
            rcalls = 1 /\ RetryEvents = {}

\* a GitHub request that failed with 503, a network error and 429: three requests,
\* two GITHUB_RETRY events, then the give-up
C26_Witness ==
  /\ rcfg.github /\ RetryDone /\ rresult.threw
  /\ rcalls = GitHubRetries + 1
  /\ rerrors[1].status = <<503>> /\ rerrors[2].status = NoParam /\ rerrors[3].status = <<429>>
  /\ Cardinality(RetryEvents) = 2
  /\ revents[Len(revents)].event = "GITHUB_RETRY_GIVEUP"


----------------------------------------------------------------------------
(* mapLimit.                                                               *)

InFlight == {w \in DOMAIN mworkers : mworkers[w].pc = "await"}
MapIndexes == 0..(mitems - 1)
MapSettled == mreturn # NoDoc
MapResolved == MapSettled /\ ~mreturn.threw
\* the promise has settled and no invocation is pending
MapQuiet == MapSettled /\ InFlight = {}
LimitRejected ==
  mlimit < 1 =>
    /\ \A i \in MapIndexes : minvoked[i] = 0
    /\ MapSettled => (mreturn.threw /\ mreturn.error = "mapLimit requires limit >= 1")
InInputOrder ==
  MapResolved => \A i \in MapIndexes : mreturn.results[i] = <<MapperResult(i)>>

----------------------------------------------------------------------------
(* The deduper against the persisted index. *)

Bypassed(run) == run.config.bridge_only
HadEntry(run, c) == run.loaded[c.full_name] # NoParam
Refreshed(run, c) ==
  /\ run.config.allowRefresh
  /\ c.pushed_at > run.loaded[c.full_name][1].last_pushed_at
NewOf(run) == Range(run.new_candidates)
OnlyNewOrRefreshed(run) ==
  \A c \in NewOf(run) : HadEntry(run, c) => Refreshed(run, c)
SameAgain(i) ==
  /\ i > 1
  /\ dhist[i].candidates = dhist[i - 1].candidates
  /\ ~dhist[i].config.allowRefresh

----------------------------------------------------------------------------
(* Topic selection: cooldown, freeze, duplicates and batch size. *)

SelectedTopics == Range(tlast.topics)
InCooldown(topic) ==
  \E run \in Range(tlast.loaded.recent_runs) :
    /\ run.run_seq > tlast.loaded.run_seq - tcfg.cooldownRuns
    /\ topic \in Range(run.topics)
IsFrozen(topic) ==
  /\ topic \in DOMAIN tlast.loaded.topic_stats
  /\ tlast.loaded.topic_stats[topic].frozen_until_run_seq > tlast.loaded.run_seq
NoDuplicateTopic == Cardinality(SelectedTopics) = Len(tlast.topics)
WithinBatch == Len(tlast.topics) <= tcfg.batchSize

\* C29: a topic selected in one of the last cooldownRuns runs, or frozen for
\* low yield, is not selected for the current run, and the selected list has
\* no duplicate and at most batchSize topics.
C29_CooldownAndFreeze ==
  tlast # NoDoc =>
    /\ \A topic \in SelectedTopics : ~InCooldown(topic) /\ ~IsFrozen(topic)
    /\ NoDuplicateTopic
    /\ WithinBatch


----------------------------------------------------------------------------
(* The cover pass. *)

Covered == covruns[1].canonical
MissingKeys(sec) == Range(EntityKeys(covdoc, sec)) \ DOMAIN covdoc.citations[sec]
MissingNames == UNION {{KeyPrefix(sec) \o k : k \in MissingKeys(sec)} : sec \in SectionSet}
CitedIdSet(doc) ==
  Range(doc.citations.app) \cup Range(doc.citations.core_loop)
    \cup UNION {MapIds(doc.citations[sec]) : sec \in SectionSet}

----------------------------------------------------------------------------
(* The order of the stages of a bridge report. *)

StageNames == [i \in 1..Len(stages) |-> stages[i].name]
IsNotCover(name) == name # "cover"
BeforeTheLoop == <<"parse", "wire_validate", "normalize", "canonical_validate">>
StartsInOrder ==
  LET names == SelectSeq(StageNames, IsNotCover)
      n == Min(Len(names), Len(BeforeTheLoop))
  IN SubSeq(names, 1, n) = SubSeq(BeforeTheLoop, 1, n)
GatesAdjacent ==
  \A i \in 1..Len(stages) :
    StageNames[i] = "evidence_gate" =>
      /\ i > 1 /\ StageNames[i - 1] \in {"canonical_validate", "repair"}
      /\ i < Len(stages) /\ StageNames[i + 1] = "quality_gate"
RepairThenValidate ==
  \A i \in 1..Len(stages) :
    (StageNames[i] = "repair" /\ i < Len(stages)) => StageNames[i + 1] = "canonical_validate"

\* C31: a report starts parse, wire_validate, normalize, canonical_validate,
\* evidence_gate is immediately followed by quality_gate, and a repair stage
\* is followed by a canonical_validate stage before the gates run again.
C31_StageOrder == StartsInOrder /\ GatesAdjacent /\ RepairThenValidate


----------------------------------------------------------------------------
(* The rerun of synthesis without enrichment. *)

InIteration == npc \in {"iter", "synth", "bridge"}
LooksUnstable(cause) ==
  \/ StageFailed(<<cause.report>>, "wire_validate")
  \/ StageFailed(<<cause.report>>, "canonical_validate")
  \/ /\ cause.attempts_used >= RepairLimit(nconfig)
     /\ OrElse(cause.report.final.unknown_ids_count, 0) = 0
     /\ cause.manyEvidence
\* iteration niter was reached through niter - 1 failed iterations, each ended
\* by the one rerun or by one call of enrichEvidence
OneStepPerIteration ==
  /\ (InIteration /\ niter >= 1) => nhist.reruns + nhist.enrichCalls = niter - 1
  /\ npc = "enrich" => nhist.reruns + nhist.enrichCalls = niter

\* C32: for one repository at most one iteration ends by the rerun without
\* enrichment, only after a failure that looks like LLM instability, and every
\* other failed iteration before the last calls enrichEvidence exactly once.
C32_RerunOnce ==
  /\ nhist # NoDoc =>
       /\ nhist.reruns <= 1
       /\ nhist.rerunCause # NoParam => LooksUnstable(nhist.rerunCause[1])
       /\ nhist.reruns = 1 <=> nhist.rerunCause # NoParam
  /\ nhist # NoDoc => OneStepPerIteration

C32_Witness ==
  /\ npc = "bridge" /\ niter = 3
  /\ nhist.reruns = 1 /\ nhist.enrichCalls = 1
  /\ ~StageFailed(<<nhist.rerunCause[1].report>>, "wire_validate")


----------------------------------------------------------------------------
(* The keys handed to the repair and the empty fields of the quality gate. *)

DefaultQuality == qualityConfig = [requireNonEmpty |-> TRUE, minCoverageRatio |-> RatioScale]
MissingNow == computeMissingCitationKeys(canonical, TRUE)
QualityNow == qualityGate(canonical, qualityConfig)
ReachedGates == \E i \in 1..Len(stages) : stages[i].name = "quality_gate"
StageBack(k) == stages[Len(stages) - k]
StoppedForLackOfKeys ==
  /\ pc = "done" /\ ~result.ok /\ ReachedGates
  /\ final.attempts_used < maxRepairAttempts

\* C33: computeMissingCitationKeys(doc, true) is the empty_fields list of
\* qualityGate on the same document; under the default quality configuration a
\* failed quality gate has a missing key, and the bridge stops with repair
\* attempts left only when the quality gate passed and the evidence gate failed.
C33_MissingIsEmptyFields ==
  canonical # NoDoc =>
    /\ MissingNow = QualityNow.empty_fields
    /\ \A i \in 1..Len(RequiredChecks(canonical)) :
         LET c == RequiredChecks(canonical)[i]
         IN c.name \in Range(MissingNow) <=>
              \E j \in 1..Len(RequiredChecks(canonical)) :
                 RequiredChecks(canonical)[j].name = c.name
                 /\ RequiredChecks(canonical)[j].ids = <<>>
    /\ DefaultQuality =>
         /\ ~QualityNow.ok => MissingNow # <<>>
         /\ StoppedForLackOfKeys => StageBack(0).ok /\ ~StageBack(1).ok

C33_Witness ==
  /\ DefaultQuality
  /\ StoppedForLackOfKeys
  /\ StageBack(0).name = "quality_gate" /\ StageBack(1).name = "evidence_gate"
  /\ MissingNow = <<>>


----------------------------------------------------------------------------
(* The returns of runBridge and the fall-through after the loop. *)

BridgeReturned == pc = "done"
FellThrough == BridgeReturned /\ "reason" \in DOMAIN final /\ final.reason = "bridge exhausted"
GateFailure == BridgeReturned /\ ~result.ok /\ ReachedGates

\* C34: runBridge never returns the fall-through result "bridge exhausted"; a
\* failure that reached the gates ends with the two gate stages, and reports
\* "evidence gate failed" or "quality gate failed" with the unknown-id and
\* empty-field counts of those stages.
C34_NoFallThrough ==
  /\ ~FellThrough
  /\ GateFailure =>
       /\ StageBack(1).name = "evidence_gate" /\ StageBack(0).name = "quality_gate"
       /\ final.reason = IF StageBack(1).ok THEN "quality gate failed"
                         ELSE "evidence gate failed"
       /\ final.unknown_ids_count = StageBack(1).stats.unknown_ids_count
       /\ final.empty_fields_count = StageBack(0).stats.empty_fields
       /\ final.attempts_used = StageBack(0).stats.attempt

C34_Witness ==
  /\ GateFailure
  /\ final.attempts_used = maxRepairAttempts /\ maxRepairAttempts > 0
  /\ final.reason = "quality gate failed"
  /\ \E i \in 1..Len(stages) : stages[i].name = "repair"


----------------------------------------------------------------------------
(* classifyFailure on the failed reports of runBridge. *)

FinalField(field) == IF field \in DOMAIN final THEN <<final[field]>> ELSE NoParam
\* the report of the finished call, as classifyFailure reads it
BridgeReport ==
  [final |-> [ok |-> final.ok, reason |-> FinalField("reason"),
              unknown_ids_count |-> FinalField("unknown_ids_count"),
              empty_fields_count |-> FinalField("empty_fields_count"),
              coverage_ratio |-> FinalField("coverage_ratio")],
   stages |-> [i \in 1..Len(stages) |-> StageOf(stages[i].name, stages[i].ok)]]
\* the calls the node can make with that report
ClassifyCalls ==
  {[error |-> e, report |-> <<BridgeReport>>, isFetchError |-> <<fetch>>,
    budgetCutoff |-> cutoff, gapItersUsed |-> g[1], maxGapIters |-> g[2],
    evidenceAddedTotal |-> g[3]] :
     e \in {NoParam, FinalField("reason")}, fetch \in BOOLEAN,
     cutoff \in Maybe(BOOLEAN), g \in GapArguments}
FlagFirst(args) == args.budgetCutoff = <<TRUE>> \/ args.isFetchError = <<TRUE>>
BridgeFailed == pc = "done" /\ ~result.ok

\* C35: under the default quality configuration classifyFailure returns neither
\* REPAIR_EXHAUSTED nor QUALITY_GATE_LOW_COVERAGE for a failed report of
\* runBridge, and a failure that reached the gates is EVIDENCE_GATE_UNKNOWN_ID
\* when unknown ids remain and QUALITY_GATE_EMPTY_CITATIONS otherwise, unless
\* the budget or fetch flag is set.
C35_GateFailureKinds ==
  (BridgeFailed /\ DefaultQuality) =>
    \A args \in ClassifyCalls :
      /\ classifyFailure(args).kind \notin {"REPAIR_EXHAUSTED", "QUALITY_GATE_LOW_COVERAGE"}
      /\ (ReachedGates /\ ~FlagFirst(args)) =>
           classifyFailure(args).kind =
             IF final.unknown_ids_count > 0 THEN "EVIDENCE_GATE_UNKNOWN_ID"
             ELSE "QUALITY_GATE_EMPTY_CITATIONS"
      /\ args.budgetCutoff = <<TRUE>> => classifyFailure(args).kind = "BUDGET_CUTOFF"
      /\ (args.budgetCutoff # <<TRUE>> /\ args.isFetchError = <<TRUE>>) =>
           classifyFailure(args).kind = "FETCH_FAILED"

C35_Witness ==
  /\ BridgeFailed /\ DefaultQuality /\ ReachedGates
  /\ RepairAttempts(<<BridgeReport>>) >= 2
  /\ final.unknown_ids_count = 0
  /\ final.coverage_ratio < RatioScale


----------------------------------------------------------------------------
(* The tallies of llm_spec_generator. *)

RECURSIVE SumOver(_, _)
SumOver(f, S) ==
  IF S = {} THEN 0
  ELSE LET x == CHOOSE y \in S : TRUE IN f[x] + SumOver(f, S \ {x})
FailedEntries == Cardinality({i \in 1..Len(nout.spec_results) : ~nout.spec_results[i].ok})
OkEntries == Cardinality({i \in 1..Len(nout.spec_results) : nout.spec_results[i].ok})
TaxonomyTotal == SumOver(nout.fail_taxonomy_summary, FailKinds)

\* C36: when the node has finished, the entries with ok=false are as many as
\* stats.specs_failed and as the increments of fail_taxonomy_summary, and the
\* entries with ok=true as many as stats.specs_succeeded.
C36_TalliesAgree ==
  npc = "done" =>
    /\ FailedEntries = nout.specs_failed
    /\ FailedEntries = TaxonomyTotal
    /\ OkEntries = nout.specs_succeeded

----------------------------------------------------------------------------
(* C37: in every gap-loop record evidence_added_total equals               *)
(* evidence_total_final minus evidence_total_initial: what enrichment      *)
(* reports as added is what it appended to the evidence list, items        *)
(* dropped as duplicates of existing evidence not being counted.           *)

GapRecordWritten == eentry # NoDoc

C37_AddedIsGrowth ==
  GapRecordWritten =>
    eentry.evidence_added_total = eentry.evidence_total_final - eentry.evidence_total_initial

\* the weaker statement that does hold: the list never grows by more than reported
C37_GrowthAtMostAdded ==
  GapRecordWritten =>
    /\ eentry.evidence_total_final - eentry.evidence_total_initial <= eentry.evidence_added_total
    /\ eentry.evidence_total_final >= eentry.evidence_total_initial


----------------------------------------------------------------------------
(* C38: across the enrichments of one repository the evidence ids stay     *)
(* pairwise distinct and no evidence item is removed or given another id:  *)
(* the allow-list of iteration i+1 contains the allow-list of iteration i, *)
(* and the allow-list of an iteration contains every id offered to the     *)
(* synthesis model in that iteration.                                      *)

DistinctIds(evidence) ==
  \A i, j \in 1..Len(evidence) : evidence[i].id = evidence[j].id => i = j

ItemsKept(before, after) == Range(before) \subseteq Range(after)

C38_AllowListGrows ==
  /\ DistinctIds(ecard.evidence)
  /\ \A i \in 1..Len(eiters) : DistinctIds(eiters[i].evidence)
  /\ \A i \in 1..(Len(eiters) - 1) :
       /\ ItemsKept(eiters[i].evidence, eiters[i + 1].evidence)
       /\ Range(eiters[i].allowedEvidenceIds) \subseteq Range(eiters[i + 1].allowedEvidenceIds)
  /\ \A i \in 1..Len(eiters) :
       Range(eiters[i].offered) \subseteq Range(eiters[i].allowedEvidenceIds)

\* two enrichments, the first of which appended an item and dropped a duplicate
C38_Witness ==
  /\ Len(eiters) = MaxEnrich + 1
  /\ eiters[1].evidence # <<>>
  /\ Len(eiters[2].evidence) > Len(eiters[1].evidence)
  /\ Len(eiters[3].evidence) > Len(eiters[2].evidence)
  /\ egap.addedEvidenceTotal > Len(eiters[3].evidence) - Len(eiters[1].evidence)
  /\ Len(eiters[3].offered) < Len(eiters[3].allowedEvidenceIds)


----------------------------------------------------------------------------
(* C39: with the budget enabled the run-level stop is stable: once         *)
(* shouldStopRun has returned stop=true it returns stop=true on every      *)
(* later call of the run, stopReason keeps the first reason,               *)
(* BUDGET_STOP_RUN is logged at most once and no repository is started     *)
(* for synthesis afterwards; with the budget disabled shouldStopRun and    *)
(* shouldStopRepo never return stop=true.                                  *)

RunCalls == btrace.runCalls
StopCalls == {i \in 1..Len(RunCalls) : RunCalls[i].stop}
FirstStop == CHOOSE i \in StopCalls : \A j \in StopCalls : i <= j

StopIsStable == \A i \in StopCalls : \A j \in i..Len(RunCalls) : RunCalls[j].stop

KeepsFirstReason ==
  IF StopCalls = {} THEN bstate.stopReason = NoParam
  ELSE bstate.stopReason = RunCalls[FirstStop].reason

C39_RunStopIsStable ==
  IF bcfg.enabled
    THEN /\ StopIsStable
         /\ KeepsFirstReason
         /\ btrace.stopRunLogged <= 1
         /\ btrace.stopRunLogged = 1 <=> StopCalls # {}
         /\ ~btrace.startedAfterStop
    ELSE /\ StopCalls = {}
         /\ ~btrace.repoStopped

\* a stop returned three times, the later calls with another limit reached first
C39_Witness ==
  /\ bcfg.enabled
  /\ Cardinality(StopCalls) > 2
  /\ \E i \in StopCalls : RunCalls[i].reason # RunCalls[FirstStop].reason
  /\ bloop.card > 1
  /\ bstate.llmCallsTotal > 0

\* the disabled budget with limits that are reached
C39_DisabledReached ==
  /\ ~bcfg.enabled
  /\ Len(RunCalls) > 2
  /\ bstate.llmCallsTotal >= bcfg.maxTotalLlmCallsPerRun
  /\ bstate.reposProcessed >= bcfg.maxReposPerRun


----------------------------------------------------------------------------
(* C40: every candidate seen by the deduper is in the persisted index as   *)
(* seen before spec generation starts, whatever the outcome: a repository  *)
(* whose spec generation fails, or that is never reached, is still skipped *)
(* by the deduper of the next run when allowRefresh is false.              *)

InIndexFile(name) == xfile[name] # NoParam

SeenBeforeGeneration ==
  xrun.phase = "generator" => \A name \in FullNames(xrun.candidates) : InIndexFile(name)

SkippedNextRun(k) ==
  ~xhist[k + 1].allowRefresh => xhist[k].names \cap xhist[k + 1].kept = {}

C40_SeenWhateverTheOutcome ==
  /\ SeenBeforeGeneration
  /\ \A k \in 1..(Len(xhist) - 1) : SkippedNextRun(k)

\* the same without a regression suite in any run so far
NoRegression ==
  /\ \A k \in 1..Len(xhist) : xhist[k].regression = "off"
  /\ xrun.phase # "idle" => xrun.config.regression = "off"

C40_WithoutRegression == NoRegression => C40_SeenWhateverTheOutcome

\* a run in full regression mode: the deduper marked the candidates, the suite's
\* graph then saved an index of its own, and the next deduper keeps a candidate again
C40_SuiteOverwrites ==
  /\ Len(xhist) = 2
  /\ xhist[1].regression = "full" /\ xhist[2].regression = "off"
  /\ ~SkippedNextRun(1)


====
